---- MODULE Spec2Model ----
(***************************************************************************)
(* Trialix: biomarker enrichment analysis.                                 *)
(*                                                                         *)
(* The model covers the three core components and the state they keep:    *)
(*   BiomarkerAnalyzer.analyze_biomarkers      (core/biomarker_analysis.py)*)
(*   CutoffOptimizer.optimize_multiple_cutoffs (core/cutoff_optimizer.py)  *)
(*   CriteriaGenerator.generate_criteria       (core/criteria_generator.py)*)
(* and the TrialEnrichment object that drives them   (api/enrichment.py).  *)
(*                                                                         *)
(* A dataset is a sequence of row groups: a row group stands for n         *)
(* consecutive DataFrame rows with the same outcome and biomarker values.  *)
(* Floating point results are kept as exact fractions [num, den]; den = 0  *)
(* encodes the two non-finite floats (NaN = 0/0, inf = 1/0).               *)
(***************************************************************************)
EXTENDS Integers, Sequences, FiniteSets, TLC

VARIABLES data,     \* the DataFrame shared by analyzer, optimizer and generator
          fit,      \* what model fitting yields on this dataset, per column
          first_threshold,  \* the threshold roc_curve puts in front of the curve
          results,  \* BiomarkerAnalyzer.results
          te,       \* the TrialEnrichment object: what it has loaded and computed
          pc,       \* "idle" before a call, "done" after it, "repeated"
                    \* after a call that repeats the one before it
          call,     \* the operation called and its arguments
          ret       \* what the call returned, or the exception it raised

vars == <<data, fit, first_threshold, results, te, pc, call, ret>>

----------------------------------------------------------------------------
(* Bounds of the model *)

MaxPatients == 2     \* rows of a dataset handed to the criteria generator
MaxCriteria == 2     \* max_criteria is drawn from 1..MaxCriteria
MaxExtra    == 1     \* patients of a batch dataset beyond the 19 of its cohort
MaxList     == 2     \* length of a biomarker_list argument
BlockSize   == 5     \* patients in one block of a cutoff dataset

----------------------------------------------------------------------------
(* Program constants *)

MinSampleSize == 20  \* complete (biomarker, outcome) pairs a biomarker needs
MIN_PATIENTS == 50
MIN_RESPONDERS == 10
MIN_NON_RESPONDERS == 10
ContinuousAbove == 10    \* a numeric column is continuous above this many values

----------------------------------------------------------------------------
(* Values *)

NA == -1                         \* a missing cell (NaN in the DataFrame)

Values == {1, 2}                 \* the values a biomarker takes

ColumnOrder == <<"b1", "b2">>             \* the biomarker columns, left to right
Columns == {ColumnOrder[i] : i \in DOMAIN ColumnOrder}

Rat(n, d) == [num |-> n, den |-> d]
NaN  == Rat(0, 0)
Inf  == Rat(1, 0)
Zero == Rat(0, 1)
One  == Rat(1, 1)

RECURSIVE Gcd(_, _)
Gcd(a, b) == IF b = 0 THEN a ELSE Gcd(b, a % b)

\* float division of two non-negative integers, d > 0
Frac(n, d) == LET g == Gcd(n, d) IN Rat(n \div g, d \div g)

\* x / y for finite x >= 0 and finite y > 0
RatDiv(x, y) == Frac(x.num * y.den, x.den * y.num)

\* x < y on floats: false as soon as one side is NaN
RatLt(x, y) ==
    IF x = NaN \/ y = NaN THEN FALSE
    ELSE IF y = Inf THEN x # Inf
    ELSE IF x = Inf THEN FALSE
    ELSE x.num * y.den < y.num * x.den

\* x > 0 on floats
RatPos(x) == x.num > 0

\* n / d for an integer n of either sign and d > 0
FracS(n, d) ==
    IF n < 0 THEN Rat(0 - Frac(0 - n, d).num, Frac(0 - n, d).den) ELSE Frac(n, d)

\* x - y on floats
RatSub(x, y) ==
    IF x.den = 0 \/ y.den = 0 THEN NaN
    ELSE FracS(x.num * y.den - y.num * x.den, x.den * y.den)

\* x >= y on floats: false as soon as one side is NaN
RatGe(x, y) ==
    IF x = NaN \/ y = NaN THEN FALSE
    ELSE IF x = Inf THEN TRUE
    ELSE IF y = Inf THEN FALSE
    ELSE x.num * y.den >= y.num * x.den

Min(a, b) == IF a <= b THEN a ELSE b

\* an optional argument or attribute: None, or the value given
None == <<>>
Some(x) == <<x>>

\* DataFrame.head(k), k >= 0
HeadRows(table, k) == SubSeq(table, 1, Min(k, Len(table)))

SeqsUpTo(S, k) == UNION {[1..m -> S] : m \in 0..k}

\* the sequence s, with its entries computed once
AsSeq(s) == <<>> \o s

\* the function f, with its values computed once
AsFcn(f) == f @@ <<>>

\* the member of a set of one.  Only({e(x) : x \in {v}}) is e(v), with v
\* computed once however often e uses it.
Only(S) == CHOOSE x \in S : TRUE

----------------------------------------------------------------------------
(* The dataset *)

\* the sum of the first k entries of s
RECURSIVE SumFirst(_, _)
SumFirst(s, k) == IF k = 0 THEN 0 ELSE s[k] + SumFirst(s, k - 1)

SumSeq(s) == SumFirst(s, Len(s))

\* mask.sum(): the number of DataFrame rows a boolean mask selects; a mask
\* has one entry for each row group
CountRows(rows, mask) ==
    SumSeq([i \in DOMAIN rows |-> IF mask[i] THEN rows[i].n ELSE 0])

\* (mutant) the outcome mask lets every row through
ValidOutcome_All(r) == TRUE

\* Series.notna() on the outcome column
ValidOutcome(r) == r.out # NA

\* data.loc[mask, outcome_col].mean(): NaN on an empty selection
MeanOutcome(rows, mask) ==
    LET cnt  == CountRows(rows, mask)
        resp == [i \in DOMAIN rows |-> mask[i] /\ rows[i].out = 1]
    IN IF cnt = 0 THEN NaN ELSE Frac(CountRows(rows, resp), cnt)

----------------------------------------------------------------------------
(* An insertion-ordered dict biomarker -> cutoff, as a sequence of entries *)

DictKeys(d) == {d[i].biomarker : i \in DOMAIN d}

DictSet(d, b, c) ==
    IF b \in DictKeys(d)
    THEN [i \in DOMAIN d |-> IF d[i].biomarker = b
                             THEN [biomarker |-> b, cutoff |-> c] ELSE d[i]]
    ELSE Append(d, [biomarker |-> b, cutoff |-> c])

----------------------------------------------------------------------------
(* CriteriaGenerator *)

\* A string is the sequence of its characters.  Biomarker names are spelled
\* out here; the cutoffs that are formatted are whole numbers.
NameLetters ==
    [b1 |-> <<"b", "1">>,
     b2 |-> <<"b", "2">>,
     bx |-> <<"b", "x">>,
     age |-> <<"a", "g", "e">>,
     crp_level |-> <<"c", "r", "p", "_", "l", "e", "v", "e", "l">>,
     ki67_score |-> <<"k", "i", "6", "7", "_", "s", "c", "o", "r", "e">>,
     Percent_PDL1 |-> <<"P", "e", "r", "c", "e", "n", "t", "_", "P", "D", "L", "1">>,
     tumor_percentage |-> <<"t", "u", "m", "o", "r", "_", "p", "e", "r", "c", "e",
                            "n", "t", "a", "g", "e">>,
     STAGE_SCORE |-> <<"S", "T", "A", "G", "E", "_", "S", "C", "O", "R", "E">>]

LowerCase == <<"a", "b", "c", "d", "e", "f", "g", "h", "i", "j", "k", "l", "m",
               "n", "o", "p", "q", "r", "s", "t", "u", "v", "w", "x", "y", "z">>
UpperCase == <<"A", "B", "C", "D", "E", "F", "G", "H", "I", "J", "K", "L", "M",
               "N", "O", "P", "Q", "R", "S", "T", "U", "V", "W", "X", "Y", "Z">>
DigitChars == <<"0", "1", "2", "3", "4", "5", "6", "7", "8", "9">>

IsCased(c) == \E i \in DOMAIN LowerCase : c = LowerCase[i] \/ c = UpperCase[i]

ToLower(c) ==
    IF \E i \in DOMAIN UpperCase : c = UpperCase[i]
    THEN LowerCase[CHOOSE i \in DOMAIN UpperCase : c = UpperCase[i]]
    ELSE c

ToUpper(c) ==
    IF \E i \in DOMAIN LowerCase : c = LowerCase[i]
    THEN UpperCase[CHOOSE i \in DOMAIN LowerCase : c = LowerCase[i]]
    ELSE c

\* str.lower()
Lower(str) == AsSeq([i \in DOMAIN str |-> ToLower(str[i])])

\* str.replace("_", " ")
ReplaceUnderscores(str) == AsSeq([i \in DOMAIN str |-> IF str[i] = "_" THEN " " ELSE str[i]])

\* str.title(): a letter is upper case after a character that is no letter
\* (or at the start) and lower case after a letter
Title(str) ==
    AsSeq([i \in DOMAIN str |->
              IF i > 1 /\ IsCased(str[i - 1]) THEN ToLower(str[i])
              ELSE ToUpper(str[i])])

\* sub in str
Contains(str, sub) ==
    \E k \in 0..(Len(str) - Len(sub)) :
        \A i \in DOMAIN sub : str[k + i] = sub[i]

RECURSIVE Decimal(_)
Decimal(n) ==
    IF n < 10 THEN <<DigitChars[n + 1]>>
    ELSE Decimal(n \div 10) \o <<DigitChars[(n % 10) + 1]>>

\* f"{cutoff:.<decimals>f}" for a whole number
FormatFixed(cutoff, decimals) ==
    (IF cutoff < 0 THEN <<"-">> ELSE <<>>)
    \o Decimal(IF cutoff < 0 THEN -cutoff ELSE cutoff)
    \o (IF decimals > 0 THEN <<".">> \o [i \in 1..decimals |-> "0"] ELSE <<>>)

Age     == <<"a", "g", "e">>
Score   == <<"s", "c", "o", "r", "e">>
Percent == <<"p", "e", "r", "c", "e", "n", "t">>
Years   == <<"y", "e", "a", "r", "s">>

\* the rendered rule string of one criterion; ">=" stands for its one
\* character, the greater-or-equal sign
_format_criterion(biomarker, cutoff) ==
    LET name == NameLetters[biomarker]
        biomarker_clean == Title(ReplaceUnderscores(name))
        by_magnitude == IF cutoff >= 1 \/ -cutoff >= 1 THEN FormatFixed(cutoff, 1)
                        ELSE FormatFixed(cutoff, 2)
        is_age == Contains(Lower(name), Age)
        is_percentage == Contains(Lower(name), Score) \/ Contains(Lower(name), Percent)
        cutoff_str == IF ~is_age /\ is_percentage
                      THEN FormatFixed(cutoff, 0) \o <<"%">>
                      ELSE by_magnitude
        units == IF is_age THEN Years ELSE <<>>
        criterion == biomarker_clean \o <<" ", ">=", " ">> \o cutoff_str
    IN IF units # <<>> THEN criterion \o <<" ">> \o units ELSE criterion

\* (mutant) a missing biomarker value passes the threshold
EligibleRow_MissingPasses(r, cutoffs) ==
    \A i \in DOMAIN cutoffs :
        cutoffs[i].biomarker \in Columns =>
            \/ r.val[cutoffs[i].biomarker] = NA
            \/ r.val[cutoffs[i].biomarker] >= cutoffs[i].cutoff

\* data[biomarker] >= cutoff for every entry whose biomarker is a column;
\* a comparison with a missing value is False
EligibleRow(r, cutoffs) ==
    \A i \in DOMAIN cutoffs :
        cutoffs[i].biomarker \in Columns =>
            /\ r.val[cutoffs[i].biomarker] # NA
            /\ r.val[cutoffs[i].biomarker] >= cutoffs[i].cutoff

\* (mutant) the fraction itself, not its inverse
NumberNeededToScreen_NoInverse(eligible_fraction) ==
    IF RatPos(eligible_fraction) THEN eligible_fraction ELSE Inf

\* number_needed_to_screen from eligible_fraction
NumberNeededToScreen(eligible_fraction) ==
    IF RatPos(eligible_fraction) THEN RatDiv(One, eligible_fraction) ELSE Inf

\* (mutant) the eligible mask is not restricted to the patients with an outcome
_calculate_combined_impact_AnyOutcome(rows, cutoffs) ==
    LET valid_outcome_mask == [i \in DOMAIN rows |-> rows[i].out # NA]
        eligible_mask == [i \in DOMAIN rows |->
                             \A k \in DOMAIN cutoffs :
                                 cutoffs[k].biomarker \in Columns =>
                                     /\ rows[i].val[cutoffs[k].biomarker] # NA
                                     /\ rows[i].val[cutoffs[k].biomarker] >= cutoffs[k].cutoff]
        n_total    == CountRows(rows, valid_outcome_mask)
        n_eligible == CountRows(rows, eligible_mask)
        eligible_fraction == IF n_total > 0 THEN Frac(n_eligible, n_total) ELSE Zero
        response_rate_unenriched == MeanOutcome(rows, valid_outcome_mask)
        response_rate_enriched ==
            IF n_eligible > 0 THEN MeanOutcome(rows, eligible_mask) ELSE Zero
    IN [response_rate_unenriched |-> response_rate_unenriched,
        response_rate_enriched   |-> response_rate_enriched,
        eligible_fraction        |-> eligible_fraction,
        enrichment_factor        |->
            IF response_rate_unenriched.den > 0 /\ response_rate_unenriched.num > 0
            THEN Frac(response_rate_enriched.num * response_rate_unenriched.den,
                      response_rate_enriched.den * response_rate_unenriched.num)
            ELSE One,
        number_needed_to_screen  |->
            IF eligible_fraction.num > 0
            THEN Frac(eligible_fraction.den, eligible_fraction.num) ELSE Inf,
        n_eligible               |-> n_eligible,
        n_total                  |-> n_total]

_calculate_combined_impact(rows, cutoffs) ==
    LET valid_outcome_mask == [i \in DOMAIN rows |-> ValidOutcome(rows[i])]
        eligible_mask == [i \in DOMAIN rows |->
                             EligibleRow(rows[i], cutoffs) /\ valid_outcome_mask[i]]
        n_total    == CountRows(rows, valid_outcome_mask)
        n_eligible == CountRows(rows, eligible_mask)
        eligible_fraction == IF n_total > 0 THEN Frac(n_eligible, n_total) ELSE Zero
        response_rate_unenriched == MeanOutcome(rows, valid_outcome_mask)
        response_rate_enriched ==
            IF n_eligible > 0 THEN MeanOutcome(rows, eligible_mask) ELSE Zero
        enrichment_factor ==
            IF RatPos(response_rate_unenriched)
            THEN RatDiv(response_rate_enriched, response_rate_unenriched)
            ELSE One
        number_needed_to_screen == NumberNeededToScreen(eligible_fraction)
    IN [response_rate_unenriched |-> response_rate_unenriched,
        response_rate_enriched   |-> response_rate_enriched,
        eligible_fraction        |-> eligible_fraction,
        enrichment_factor        |-> enrichment_factor,
        number_needed_to_screen  |-> number_needed_to_screen,
        n_eligible               |-> n_eligible,
        n_total                  |-> n_total]

\* cutoff_results[cutoff_results["biomarker"] == biomarker]
CutoffRows(cutoff_results, biomarker) ==
    SelectSeq(cutoff_results, LAMBDA row : row.biomarker = biomarker)

\* the loop over top_biomarkers: criteria_list, biomarkers_used, cutoffs_dict
RECURSIVE BuildCriteria(_, _, _)
BuildCriteria(top, cutoff_results, acc) ==
    IF top = <<>> THEN acc
    ELSE LET biomarker  == Head(top).biomarker
             cutoff_row == CutoffRows(cutoff_results, biomarker)
             next == IF cutoff_row # <<>>
                     THEN [criteria_list   |-> Append(acc.criteria_list,
                                  _format_criterion(biomarker, cutoff_row[1].cutoff)),
                           biomarkers_used |-> Append(acc.biomarkers_used, biomarker),
                           cutoffs_dict    |-> DictSet(acc.cutoffs_dict, biomarker,
                                                       cutoff_row[1].cutoff)]
                     ELSE acc
         IN BuildCriteria(Tail(top), cutoff_results, next)

\* (mutant) no truncation of the ranked table
TopBiomarkers_All(biomarker_results, max_criteria) == biomarker_results

\* top_biomarkers = biomarker_results.head(max_criteria)
TopBiomarkers(biomarker_results, max_criteria) ==
    HeadRows(biomarker_results, max_criteria)

\* (mutant) the backoff keeps the last entry of the rule
BackoffRule_Last(built, impact, min_eligible_fraction) ==
    IF /\ RatLt(impact.eligible_fraction, min_eligible_fraction)
       /\ Len(built.cutoffs_dict) > 1
    THEN [criteria_list   |-> <<built.criteria_list[Len(built.criteria_list)]>>,
          biomarkers_used |-> <<built.biomarkers_used[Len(built.biomarkers_used)]>>,
          cutoffs_dict    |-> <<built.cutoffs_dict[Len(built.cutoffs_dict)]>>]
    ELSE built

\* (mutant) the backoff also fires when the fraction equals the floor
BackoffRule_AtFloor(built, impact, min_eligible_fraction) ==
    IF /\ ~RatLt(min_eligible_fraction, impact.eligible_fraction)
       /\ Len(built.cutoffs_dict) > 1
    THEN [criteria_list   |-> SubSeq(built.criteria_list, 1, 1),
          biomarkers_used |-> SubSeq(built.biomarkers_used, 1, 1),
          cutoffs_dict    |-> SubSeq(built.cutoffs_dict, 1, 1)]
    ELSE built

\* the rule kept after the floor check: the combined rule, or its first entry
BackoffRule(built, impact, min_eligible_fraction) ==
    IF /\ RatLt(impact.eligible_fraction, min_eligible_fraction)
       /\ Len(built.cutoffs_dict) > 1
    THEN [criteria_list   |-> SubSeq(built.criteria_list, 1, 1),
          biomarkers_used |-> SubSeq(built.biomarkers_used, 1, 1),
          cutoffs_dict    |-> SubSeq(built.cutoffs_dict, 1, 1)]
    ELSE built

NoCriteria(status) ==
    [status |-> status, selected |-> <<>>, criteria |-> <<>>,
     biomarkers_used |-> <<>>, cutoffs |-> <<>>, impact |-> <<>>]

generate_criteria(rows, biomarker_results, cutoff_results, max_criteria, min_frac) ==
    IF biomarker_results = <<>> THEN NoCriteria("ValueError")
    \* a cutoff table without rows has no "biomarker" column to index
    ELSE IF cutoff_results = <<>> THEN NoCriteria("KeyError")
    ELSE Only({Only({Only({[status          |-> "ok",
                            selected        |-> built.biomarkers_used,
                            criteria        |-> kept.criteria_list,
                            biomarkers_used |-> kept.biomarkers_used,
                            cutoffs         |-> kept.cutoffs_dict,
                            impact          |->
                                IF kept = built THEN combined
                                ELSE _calculate_combined_impact(rows,
                                                                kept.cutoffs_dict)] :
                           kept \in {BackoffRule(built, combined, min_frac)}}) :
                     combined \in {_calculate_combined_impact(rows,
                                                              built.cutoffs_dict)}}) :
               built \in {BuildCriteria(TopBiomarkers(biomarker_results, max_criteria),
                                        cutoff_results,
                                        [criteria_list |-> <<>>, biomarkers_used |-> <<>>,
                                         cutoffs_dict |-> <<>>])}})

----------------------------------------------------------------------------
(* Per-biomarker work of the two batch operations *)

\* valid_idx: rows where biomarker and outcome are both present
CompletePair(r, biomarker) == r.val[biomarker] # NA /\ r.out # NA

\* valid_idx.sum()
CompletePairs(rows, biomarker) ==
    CountRows(rows, [i \in DOMAIN rows |-> CompletePair(rows[i], biomarker)])

\* y holds a single class
SingleClass(rows, biomarker) ==
    Cardinality({rows[i].out : i \in {j \in DOMAIN rows :
                                        CompletePair(rows[j], biomarker)}}) < 2

\* (mutant) the sample size check is off by one
InsufficientSample_OffByOne(n_valid) == n_valid < MinSampleSize - 1

\* valid_idx.sum() < 20
InsufficientSample(n_valid) == n_valid < MinSampleSize

\* (mutant) only ValueError is caught
ExceptClause_ValueError(exc) == exc = "ValueError"

\* "except Exception" of the batch loops: which exceptions the loop absorbs
ExceptClause(exc) == exc \in {"KeyError", "ValueError", "FitError"}

\* The standard error and the interval are kept by magnitude.  A float64
\* that is not negative is "0", "+" (positive and finite), "inf" or "nan".
\* Biomarker values from SquareOverflow on stand for floats whose square is
\* above the largest float64.
SquareOverflow == 9

\* X ** 2
Square(x) == IF x = 0 THEN "0" ELSE IF x >= SquareOverflow THEN "inf" ELSE "+"

\* np.sum of entries of these magnitudes
SumMag(S) ==
    IF "nan" \in S THEN "nan"
    ELSE IF "inf" \in S THEN "inf"
    ELSE IF "+" \in S THEN "+" ELSE "0"

MulMag(a, b) ==
    IF a = "nan" \/ b = "nan" THEN "nan"
    ELSE IF a = "0" \/ b = "0" THEN (IF a = "inf" \/ b = "inf" THEN "nan" ELSE "0")
    ELSE IF a = "inf" \/ b = "inf" THEN "inf" ELSE "+"

\* 1.0 / np.sqrt(info) for info > 0
InvSqrt(info) == IF info = "inf" THEN "0" ELSE "+"

\* BiomarkerAnalyzer._calculate_standard_error on the complete pairs of a
\* biomarker.  variance is at least 1e-10 and at most 1/4; variance * X ** 2
\* multiplies a vector by a column, so that info is the sum of the variances
\* times the sum of the squares.
_calculate_standard_error(rows, biomarker) ==
    LET valid == {i \in DOMAIN rows : rows[i].val[biomarker] # NA /\ rows[i].out # NA}
        variance == [i \in valid |-> "+"]
        info == MulMag(SumMag({variance[i] : i \in valid}),
                       SumMag({Square(rows[i].val[biomarker]) : i \in valid}))
    IN IF info \in {"+", "inf"}
       THEN [se |-> InvSqrt(info), fallback |-> FALSE]
       ELSE [se |-> "+", fallback |-> TRUE]

\* np.exp(coef + times / 100 * se), for the coefficient of the fitted model
ExpCoefPlus(times, se) == [times |-> times, se |-> se]

\* (mutant) the lower limit is taken above the coefficient
CiLower_Above(se) == ExpCoefPlus(196, se)

\* ci_lower = np.exp(coef - 1.96 * se)
CiLower(se) == ExpCoefPlus(0 - 196, se)

\* ci_upper = np.exp(coef + 1.96 * se)
CiUpper(se) == ExpCoefPlus(196, se)

\* BiomarkerAnalyzer._analyze_single_biomarker: the result row, None, or the
\* exception it raises (KeyError for a name that is no column, FitError for
\* what model fitting raises: it always raises on a single outcome class)
_analyze_single_biomarker(rows, f, biomarker) ==
    IF biomarker \notin Columns THEN [status |-> "KeyError", row |-> <<>>]
    ELSE IF InsufficientSample(CompletePairs(rows, biomarker))
         THEN [status |-> "None", row |-> <<>>]
    ELSE IF SingleClass(rows, biomarker) \/ ~f[biomarker].ok
         THEN [status |-> "FitError", row |-> <<>>]
    ELSE LET se == _calculate_standard_error(rows, biomarker).se
         IN [status |-> "ok",
             row |-> [biomarker |-> biomarker,
                      OR       |-> ExpCoefPlus(0, se),
                      CI_lower |-> CiLower(se),
                      CI_upper |-> CiUpper(se),
                      p_value  |-> f[biomarker].p_value,
                      AUC      |-> f[biomarker].AUC]]

----------------------------------------------------------------------------
(* CutoffOptimizer.optimize_cutoff.  The fitted probability of a patient   *)
(* is kept as a rank: equal ranks are equal probabilities, a higher rank   *)
(* is a higher probability.                                                *)

\* y_pred_proba of a row of valid_idx
PredProba(f, biomarker, r) == f[biomarker].proba[r.val[biomarker]]

\* the rows of valid_idx, by their position in the dataset
ValidIdx(rows, biomarker) == {i \in DOMAIN rows : CompletePair(rows[i], biomarker)}

\* the members of a set of numbers, highest first
Descending(S) ==
    [k \in 1..Cardinality(S) |->
        CHOOSE x \in S : Cardinality({y \in S : y >= x}) = k]

\* for each distinct score, highest first: the non-responders (fps) and the
\* responders (tps) scored at or above it
BinaryClfCurve(rows, f, biomarker) ==
    LET cnt(t, o) == CountRows(rows, [i \in DOMAIN rows |->
                        /\ CompletePair(rows[i], biomarker) /\ rows[i].out = o
                        /\ PredProba(f, biomarker, rows[i]) >= t])
    IN Only({AsSeq([k \in DOMAIN thr |->
                      [threshold |-> [kind |-> "score", score |-> thr[k]],
                       fps |-> cnt(thr[k], 0), tps |-> cnt(thr[k], 1)]]) :
             thr \in {Descending({PredProba(f, biomarker, rows[i]) :
                                     i \in ValidIdx(rows, biomarker)})}})

\* drop_intermediate: with more than two points, an inner point stays only
\* where the second difference of fps or of tps is not zero
DropIntermediate(curve) ==
    Only({IF Len(c) <= 2 THEN c
          ELSE LET keep(k) ==
                       \/ k = 1 \/ k = Len(c)
                       \/ c[k + 1].fps - 2 * c[k].fps + c[k - 1].fps # 0
                       \/ c[k + 1].tps - 2 * c[k].tps + c[k - 1].tps # 0
               IN Only({AsSeq([k \in DOMAIN kept |-> kept[k].point]) :
                        kept \in {SelectSeq([k \in DOMAIN c |->
                                               [point |-> c[k], keep |-> keep(k)]],
                                            LAMBDA e : e.keep)}}) :
          c \in {curve}})

\* roc_curve(y, y_pred_proba): thresholds, fpr and tpr, with the point (0, 0)
\* in front; a rate is NaN when its class is absent
roc_curve(rows, f, biomarker) ==
    Only({LET n_neg == counts[Len(counts)].fps
              n_pos == counts[Len(counts)].tps
          IN AsSeq([k \in DOMAIN counts |->
                 [threshold |-> counts[k].threshold,
                  fpr |-> IF n_neg <= 0 THEN NaN ELSE Frac(counts[k].fps, n_neg),
                  tpr |-> IF n_pos <= 0 THEN NaN ELSE Frac(counts[k].tps, n_pos)]]) :
          counts \in {<<[threshold |-> [kind |-> first_threshold, score |-> 0],
                         fps |-> 0, tps |-> 0]>>
                      \o DropIntermediate(BinaryClfCurve(rows, f, biomarker))}})

\* (mutant) the last index of the maximum
ArgMax_Last(values, mask) ==
    CHOOSE i \in DOMAIN values :
        /\ mask[i]
        /\ \A j \in DOMAIN values : mask[j] => RatGe(values[i], values[j])
        /\ \A j \in DOMAIN values :
              (mask[j] /\ j > i) => ~RatGe(values[j], values[i])

\* np.argmax over the entries a mask lets through (the others count as
\* -inf): the first index of the maximum
ArgMax(values, mask) ==
    CHOOSE i \in DOMAIN values :
        /\ mask[i]
        /\ \A j \in DOMAIN values : mask[j] => RatGe(values[i], values[j])
        /\ \A j \in DOMAIN values :
              (mask[j] /\ j < i) => ~RatGe(values[j], values[i])

\* (mutant) a supplied constraint is not applied
MeetsConstraints_Ignored(point, min_sensitivity, min_specificity) == TRUE

\* valid_mask: the point meets every constraint that is supplied
MeetsConstraints(point, min_sensitivity, min_specificity) ==
    /\ min_sensitivity # None => RatGe(point.tpr, min_sensitivity[1])
    /\ min_specificity # None => RatGe(RatSub(One, point.fpr), min_specificity[1])

\* optimal_idx: the Youden maximum, over the points that meet the
\* constraints when there are such points
OptimalIdx(curve, min_sensitivity, min_specificity) ==
    Only({IF (min_sensitivity # None \/ min_specificity # None)
             /\ \E k \in DOMAIN valid_mask : valid_mask[k]
          THEN ArgMax(youden_index, valid_mask)
          ELSE ArgMax(youden_index, all) :
          youden_index \in {AsSeq([k \in DOMAIN curve |->
                                      RatSub(curve[k].tpr, curve[k].fpr)])},
          all \in {AsSeq([k \in DOMAIN curve |-> TRUE])},
          valid_mask \in {AsSeq([k \in DOMAIN curve |->
                                    MeetsConstraints(curve[k], min_sensitivity,
                                                     min_specificity)])}})

\* (mutant) a cutoff just above the value of the nearest row
_map_threshold_to_biomarker_value_Beyond(rows, f, biomarker, target_proba) ==
    LET valid == {i \in DOMAIN rows : rows[i].val[biomarker] # NA /\ rows[i].out # NA}
        score(i) == f[biomarker].proba[rows[i].val[biomarker]]
        nearest == IF target_proba.kind = "inf" THEN valid
                   ELSE IF target_proba.kind = "max+1"
                   THEN {i \in valid : \A j \in valid : score(j) <= score(i)}
                   ELSE {i \in valid : score(i) = target_proba.score}
    IN rows[CHOOSE i \in nearest : \A j \in nearest : i <= j].val[biomarker] + 1

\* (mutant) the last of the nearest rows
_map_threshold_to_biomarker_value_Last(rows, f, biomarker, target_proba) ==
    LET valid == {i \in DOMAIN rows : rows[i].val[biomarker] # NA /\ rows[i].out # NA}
        score(i) == f[biomarker].proba[rows[i].val[biomarker]]
        nearest == IF target_proba.kind = "inf" THEN valid
                   ELSE IF target_proba.kind = "max+1"
                   THEN {i \in valid : \A j \in valid : score(j) <= score(i)}
                   ELSE {i \in valid : score(i) = target_proba.score}
    IN rows[CHOOSE i \in nearest : \A j \in nearest : j <= i].val[biomarker]

\* np.argmin(np.abs(predicted_probas - target_proba)): the first row of
\* valid_idx, in data order, whose score is nearest to the target.  Every
\* score is equally far from inf; the top score is nearest to a target above
\* all scores; a target that is a score is matched by the rows that have it.
_map_threshold_to_biomarker_value(rows, f, biomarker, target_proba) ==
    Only({LET nearest == IF target_proba.kind = "inf" THEN valid
                         ELSE IF target_proba.kind = "max+1"
                         THEN {i \in valid : PredProba(f, biomarker, rows[i]) = top}
                         ELSE {i \in valid :
                                  PredProba(f, biomarker, rows[i]) = target_proba.score}
          IN Only({rows[closest_idx].val[biomarker] :
                   closest_idx \in {CHOOSE i \in nearest : \A j \in nearest : i <= j}}) :
          valid \in {ValidIdx(rows, biomarker)},
          top \in {CHOOSE x \in {PredProba(f, biomarker, rows[i]) :
                                    i \in ValidIdx(rows, biomarker)} :
                      \A i \in ValidIdx(rows, biomarker) :
                          PredProba(f, biomarker, rows[i]) <= x}})

\* y[mask].mean() if mask.sum() > 0 else 0.0
\* (mutant) the mean is taken of an empty group too
ResponseRate_Unguarded(rows, mask) == MeanOutcome(rows, mask)

ResponseRate(rows, mask) ==
    IF CountRows(rows, mask) > 0 THEN MeanOutcome(rows, mask) ELSE Zero

\* CutoffOptimizer.optimize_cutoff: the result row or the exception it raises
\* (KeyError for a name that is no column, ValueError for too few complete
\* pairs, FitError for what model fitting raises: it always raises on a
\* single outcome class)
optimize_cutoff(rows, f, biomarker, min_sensitivity, min_specificity) ==
    IF biomarker \notin Columns THEN [status |-> "KeyError", row |-> <<>>]
    ELSE IF InsufficientSample(CompletePairs(rows, biomarker))
         THEN [status |-> "ValueError", row |-> <<>>]
    ELSE IF SingleClass(rows, biomarker) \/ ~f[biomarker].ok
         THEN [status |-> "FitError", row |-> <<>>]
    ELSE Only({LET optimal == curve[OptimalIdx(curve, min_sensitivity, min_specificity)]
               IN Only({LET above_cutoff ==
                                [i \in DOMAIN rows |->
                                    /\ CompletePair(rows[i], biomarker)
                                    /\ rows[i].val[biomarker] >= optimal_cutoff]
                            below_cutoff ==
                                [i \in DOMAIN rows |->
                                    /\ CompletePair(rows[i], biomarker)
                                    /\ rows[i].val[biomarker] < optimal_cutoff]
                        IN [status |-> "ok",
                            row |-> [biomarker   |-> biomarker,
                                     cutoff      |-> optimal_cutoff,
                                     sensitivity |-> optimal.tpr,
                                     specificity |-> RatSub(One, optimal.fpr),
                                     youden_index |-> RatSub(optimal.tpr, optimal.fpr),
                                     response_rate_above |->
                                         ResponseRate(rows, above_cutoff),
                                     response_rate_below |->
                                         ResponseRate(rows, below_cutoff),
                                     n_above |-> CountRows(rows, above_cutoff),
                                     n_below |-> CountRows(rows, below_cutoff)]] :
                        optimal_cutoff \in
                            {_map_threshold_to_biomarker_value(rows, f, biomarker,
                                                               optimal.threshold)}}) :
               curve \in {roc_curve(rows, f, biomarker)}})

----------------------------------------------------------------------------
(* BiomarkerAnalyzer.analyze_biomarkers *)

\* the loop over biomarker_list: self.results and the biomarkers a warning
\* was printed for, or the exception that escapes.  A result of None is
\* passed over; the except clause prints.
RECURSIVE AnalyzeLoop(_, _, _, _, _)
AnalyzeLoop(rows, f, biomarker_list, acc, warnings) ==
    IF biomarker_list = <<>>
    THEN [status |-> "ok", results |-> acc, warnings |-> warnings]
    ELSE Only({IF result.status = "ok"
               THEN AnalyzeLoop(rows, f, Tail(biomarker_list),
                                Append(acc, result.row), warnings)
               ELSE IF result.status = "None"
               THEN AnalyzeLoop(rows, f, Tail(biomarker_list), acc, warnings)
               ELSE IF ExceptClause(result.status)
               THEN AnalyzeLoop(rows, f, Tail(biomarker_list), acc,
                                Append(warnings, Head(biomarker_list)))
               ELSE [status |-> result.status, results |-> acc,
                     warnings |-> warnings] :
               result \in {_analyze_single_biomarker(rows, f, Head(biomarker_list))}})

\* (mutant) ties on p_value are broken by the lower AUC
RanksBefore_AucAscending(a, b) ==
    \/ a.p_value < b.p_value
    \/ a.p_value = b.p_value /\ a.AUC < b.AUC

\* the order of sort_values(["p_value", "AUC"], ascending=[True, False])
RanksBefore(a, b) ==
    \/ a.p_value < b.p_value
    \/ a.p_value = b.p_value /\ a.AUC > b.AUC

\* stable insertion of a row into a sorted table
RECURSIVE InsertRow(_, _)
InsertRow(sorted, row) ==
    IF sorted = <<>> THEN <<row>>
    ELSE IF RanksBefore(row, Head(sorted)) THEN <<row>> \o sorted
    ELSE <<Head(sorted)>> \o InsertRow(Tail(sorted), row)

RECURSIVE SortValues(_, _)
SortValues(table, acc) ==
    IF table = <<>> THEN acc
    ELSE SortValues(Tail(table), InsertRow(acc, Head(table)))

\* (mutant) the filter keeps the rows below the minimum
FilterMinAuc_Below(table, min_auc) ==
    SelectSeq(table, LAMBDA row : row.AUC <= min_auc)

\* results_df[results_df["AUC"] >= min_auc]
FilterMinAuc(table, min_auc) ==
    SelectSeq(table, LAMBDA row : row.AUC >= min_auc)

\* (mutant) the results of the earlier call are kept
ResetResults_Keep(self_results) == self_results

\* self.results = []
ResetResults(self_results) == <<>>

\* df is the table returned; results is self.results after the call
analyze_biomarkers(rows, f, biomarker_list, min_auc, top_n) ==
    Only({IF loop.status # "ok"
          THEN [status |-> loop.status, results |-> loop.results, df |-> <<>>,
                warnings |-> loop.warnings]
          ELSE IF loop.results = <<>>
          THEN [status |-> "ok", results |-> <<>>, df |-> <<>>,
                warnings |-> loop.warnings]
          ELSE [status |-> "ok", results |-> loop.results,
                warnings |-> loop.warnings,
                df |-> HeadRows(FilterMinAuc(SortValues(loop.results, <<>>), min_auc),
                                top_n)] :
          loop \in {Only({AnalyzeLoop(rows, f, list, ResetResults(results), <<>>) :
                           list \in {biomarker_list}})}})

----------------------------------------------------------------------------
(* CutoffOptimizer.optimize_multiple_cutoffs *)

\* the loop over biomarker_list: the rows and the biomarkers a warning was
\* printed for, or the exception that escapes
RECURSIVE OptimizeLoop(_, _, _, _, _)
OptimizeLoop(rows, f, biomarker_list, acc, warnings) ==
    IF biomarker_list = <<>>
    THEN [status |-> "ok", df |-> acc, warnings |-> warnings]
    ELSE Only({IF result.status = "ok"
               THEN OptimizeLoop(rows, f, Tail(biomarker_list),
                                 Append(acc, result.row), warnings)
               ELSE IF ExceptClause(result.status)
               THEN OptimizeLoop(rows, f, Tail(biomarker_list), acc,
                                 Append(warnings, Head(biomarker_list)))
               ELSE [status |-> result.status, df |-> <<>>, warnings |-> warnings] :
               result \in {optimize_cutoff(rows, f, Head(biomarker_list), None, None)}})

optimize_multiple_cutoffs(rows, f, biomarker_list) ==
    Only({OptimizeLoop(rows, f, list, <<>>, <<>>) : list \in {biomarker_list}})

----------------------------------------------------------------------------
(* DataLoader.load and DataValidator: a file is the rows of the CSV, with  *)
(* the raw outcome of each patient (1 for a responder value)               *)

validate_dataframe(file) ==
    LET everyone == [i \in DOMAIN file |-> TRUE]
        outcome_values == {file[i].out : i \in DOMAIN file} \ {NA}
        n_patients == CountRows(file, everyone)
        n_responders == CountRows(file, [i \in DOMAIN file |-> file[i].out = 1])
        n_non_responders == CountRows(file, [i \in DOMAIN file |-> file[i].out = 0])
    IN /\ file # <<>>
       /\ n_patients >= MIN_PATIENTS
       /\ Cardinality(outcome_values) = 2
       /\ n_responders >= MIN_RESPONDERS
       /\ n_non_responders >= MIN_NON_RESPONDERS

\* encode_outcome: 1 for a responder value, 0 for anything else
encode_outcome(out) == IF out = 1 THEN 1 ELSE 0

\* the DataFrame load() returns, with its _outcome_binary column
LoadedData(file) ==
    AsSeq([i \in DOMAIN file |->
              [file[i] EXCEPT !.out = encode_outcome(file[i].out)]])

\* summary.continuous_biomarkers: the columns that are not all missing and
\* have more than 10 distinct values
ContinuousBiomarkers(rows) ==
    SelectSeq(ColumnOrder, LAMBDA b :
        Cardinality({rows[i].val[b] : i \in DOMAIN rows} \ {NA}) > ContinuousAbove)

----------------------------------------------------------------------------
(* TrialEnrichment: each operation gives the exception or "ok", the value  *)
(* returned and the object after the call.  A stored table carries the     *)
(* dataset it was computed from.                                           *)

\* (mutant) the object counts as loaded from the start
DataLoaded_Always(self) == TRUE

\* self.data is not None and the component is not None
DataLoaded(self) == self.loaded

\* (mutant) the rows with a missing biomarker value are dropped in place
DataAfterAnalysis_Dropna(rows) ==
    SelectSeq(rows, LAMBDA r : \A b \in Columns : r.val[b] # NA)

\* self.data after a component has worked on it: the components read it
\* through boolean masks and .loc selections, which are copies, and assign
\* to none of its cells
DataAfterAnalysis(rows) == rows

find_biomarkers(self, rows, f, biomarker_list, top_n, min_auc) ==
    IF ~DataLoaded(self)
    THEN [status |-> "RuntimeError", self |-> self, results |-> results, data |-> rows]
    ELSE Only({IF out.status # "ok"
               THEN [status |-> out.status, self |-> self, results |-> out.results,
                     data |-> DataAfterAnalysis(rows)]
               ELSE [status |-> "ok", results |-> out.results,
                     data |-> DataAfterAnalysis(rows),
                     self |-> [self EXCEPT !.biomarker_results =
                                  Some([rows |-> out.df,
                                        columns |-> out.results # <<>>,
                                        snapshot |-> rows])]] :
               out \in {analyze_biomarkers(rows, f,
                            IF biomarker_list = None THEN ContinuousBiomarkers(rows)
                            ELSE biomarker_list[1],
                            min_auc, top_n)}})

optimize_cutoffs(self, rows, f, biomarker_list) ==
    IF ~DataLoaded(self) THEN [status |-> "RuntimeError", self |-> self, data |-> rows]
    ELSE IF biomarker_list = None /\ self.biomarker_results = None
         THEN [status |-> "RuntimeError", self |-> self, data |-> rows]
    \* a ranked table without rows and without columns cannot be indexed
    ELSE IF biomarker_list = None /\ ~self.biomarker_results[1].columns
         THEN [status |-> "KeyError", self |-> self, data |-> rows]
    ELSE Only({IF out.status # "ok"
               THEN [status |-> out.status, self |-> self,
                     data |-> DataAfterAnalysis(rows)]
               ELSE [status |-> "ok", data |-> DataAfterAnalysis(rows),
                     self |-> [self EXCEPT !.cutoff_results =
                                  Some([rows |-> out.df, snapshot |-> rows])]] :
               out \in {optimize_multiple_cutoffs(rows, f,
                            IF biomarker_list = None
                            THEN [i \in DOMAIN self.biomarker_results[1].rows |->
                                     self.biomarker_results[1].rows[i].biomarker]
                            ELSE biomarker_list[1])}})

suggest_criteria(self, rows, max_criteria, min_eligible_fraction) ==
    IF self.biomarker_results = None \/ self.cutoff_results = None
    THEN [status |-> "RuntimeError", self |-> self, data |-> rows]
    ELSE IF ~DataLoaded(self) THEN [status |-> "RuntimeError", self |-> self, data |-> rows]
    ELSE Only({IF out.status # "ok"
               THEN [status |-> out.status, self |-> self,
                     data |-> DataAfterAnalysis(rows)]
               ELSE [status |-> "ok", data |-> DataAfterAnalysis(rows),
                     self |-> [self EXCEPT !.enrichment_criteria = Some(out)]] :
               out \in {generate_criteria(rows, self.biomarker_results[1].rows,
                            self.cutoff_results[1].rows, max_criteria,
                            min_eligible_fraction)}})

\* CriteriaGenerator.predict_eligibility on the rows of new_data, a frame
\* that has the given columns: the mask, or ValueError at the first biomarker
\* of the rule that is no column of new_data
predict_eligibility(new_rows, new_columns, cutoffs) ==
    IF \E i \in DOMAIN cutoffs : cutoffs[i].biomarker \notin new_columns
    THEN [status |-> "ValueError", mask |-> <<>>]
    ELSE [status |-> "ok",
          mask |-> [i \in DOMAIN new_rows |->
                      \A k \in DOMAIN cutoffs :
                          /\ new_rows[i].val[cutoffs[k].biomarker] # NA
                          /\ new_rows[i].val[cutoffs[k].biomarker] >= cutoffs[k].cutoff]]

\* load_data: the DataFrame, its components and the object after the call;
\* a file that fails validation raises before anything is assigned
load_data(self, rows, file) ==
    IF ~validate_dataframe(file)
    THEN [status |-> "ValueError", self |-> self, data |-> rows]
    ELSE [status |-> "ok", self |-> [self EXCEPT !.loaded = TRUE],
          data |-> LoadedData(file)]

----------------------------------------------------------------------------
(* The criteria generator on its own: one call of generate_criteria on a   *)
(* dataset, with a ranked biomarker table and a cutoff table as arguments  *)

\* one patient per row group
PatientRows == [n : {1}, out : {NA, 0, 1}, val : [Columns -> {NA} \cup Values]]

\* datasets are drawn up to the order of their rows, which no step of
\* generate_criteria depends on (it only sums masks over the rows)
RowKey(r) == (r.out + 1) * 100 + (r.val[ColumnOrder[1]] + 1) * 10
                 + (r.val[ColumnOrder[2]] + 1)

CriteriaDatasets ==
    {d \in SeqsUpTo(PatientRows, MaxPatients) :
        \A i \in 1..(Len(d) - 1) : RowKey(d[i]) <= RowKey(d[i + 1])}

\* ranked tables: rows best first (p_value grows with the rank)
RankedTables ==
    {[i \in DOMAIN names |-> [biomarker |-> names[i], p_value |-> i, AUC |-> 90]] :
        names \in {s \in SeqsUpTo(Columns, Cardinality(Columns)) :
                      \A i, j \in DOMAIN s : s[i] = s[j] => i = j}}

\* cutoff tables: one row for each biomarker the optimizer got a cutoff for
CutoffTableOf(cut) ==
    LET has == SelectSeq(ColumnOrder, LAMBDA b : cut[b] # NA)
    IN [i \in DOMAIN has |-> [biomarker |-> has[i], cutoff |-> cut[has[i]]]]

CutoffTables == {CutoffTableOf(cut) : cut \in [Columns -> {NA} \cup Values]}

MinFractions == {Rat(1, 2)}

NoFit == [b \in Columns |-> NA]

\* thresholds[0] of roc_curve: np.inf, or max(y_score) + 1 in scikit-learn
\* releases before 1.3
FirstThresholds == {"inf", "max+1"}

\* the TrialEnrichment object after __init__
NoEnrichment ==
    [loaded |-> FALSE, biomarker_results |-> None, cutoff_results |-> None,
     enrichment_criteria |-> None]

InitCriteria ==
    /\ data \in CriteriaDatasets
    /\ fit = NoFit
    /\ first_threshold = "inf"
    /\ results = <<>>
    /\ te = NoEnrichment
    /\ pc = "idle"
    /\ call = [op |-> "none"]
    /\ ret = <<>>

GenerateCriteria ==
    /\ pc = "idle"
    /\ \E br \in RankedTables, cr \in CutoffTables,
          mc \in 1..MaxCriteria, mf \in MinFractions :
          /\ call' = [op |-> "generate_criteria", biomarker_results |-> br,
                      cutoff_results |-> cr, max_criteria |-> mc,
                      min_eligible_fraction |-> mf]
          /\ ret' = generate_criteria(data, br, cr, mc, mf)
    /\ pc' = "done"
    /\ UNCHANGED <<data, fit, first_threshold, results, te>>

NextCriteria == GenerateCriteria

SpecCriteria == InitCriteria /\ [][NextCriteria]_vars

----------------------------------------------------------------------------
(* generate_criteria on tables a caller may build by hand, followed by     *)
(* predict_eligibility on the dataset the criteria were generated from     *)

RankedOf(names) ==
    [i \in DOMAIN names |-> [biomarker |-> names[i], p_value |-> i, AUC |-> 90]]

\* ranked tables that name a biomarker twice or name one that is no column
\* of the dataset, next to a plain one
HandMadeRankedTables ==
    {RankedOf(<<"b1", "b2">>), RankedOf(<<"b1", "b1", "b2">>),
     RankedOf(<<"b2", "b2">>), RankedOf(<<"bx", "b1">>), RankedOf(<<"b1", "bx">>)}

CutoffEntry(b, c) == [biomarker |-> b, cutoff |-> c]

\* cutoff tables with a second row for a biomarker and with a row for a
\* name that is no column
HandMadeCutoffTables ==
    {<<CutoffEntry("b1", 1), CutoffEntry("b2", 2)>>,
     <<CutoffEntry("b1", 2), CutoffEntry("b1", 1), CutoffEntry("b2", 1)>>,
     <<CutoffEntry("bx", 1), CutoffEntry("b1", 2), CutoffEntry("b2", 2)>>}

InitTables == InitCriteria

GenerateFromTables ==
    /\ pc = "idle"
    /\ \E br \in HandMadeRankedTables, cr \in HandMadeCutoffTables,
          mc \in 1..MaxCriteria, mf \in MinFractions :
          /\ call' = [op |-> "generate_criteria", biomarker_results |-> br,
                      cutoff_results |-> cr, max_criteria |-> mc,
                      min_eligible_fraction |-> mf]
          /\ ret' = generate_criteria(data, br, cr, mc, mf)
    /\ pc' = "done"
    /\ UNCHANGED <<data, fit, first_threshold, results, te>>

\* predict_eligibility(self.data, criteria) with the criteria just returned
PredictOnTraining ==
    /\ pc = "done"
    /\ ret.status = "ok"
    /\ call' = [op |-> "predict_eligibility", criteria |-> ret]
    /\ ret' = predict_eligibility(data, Columns, ret.cutoffs)
    /\ pc' = "predicted"
    /\ UNCHANGED <<data, fit, first_threshold, results, te>>

NextTables == GenerateFromTables \/ PredictOnTraining

SpecTables == InitTables /\ [][NextTables]_vars

----------------------------------------------------------------------------
(* The two batch operations on a dataset around the sample size limit: a   *)
(* cohort of MinSampleSize - 1 complete patients of both outcome classes   *)
(* and up to MaxExtra more patients, each with or without an outcome and   *)
(* with or without a value for each biomarker                              *)

Cohort ==
    <<[n |-> MinSampleSize \div 2, out |-> 1, val |-> [b \in Columns |-> 1]],
      [n |-> MinSampleSize - 1 - MinSampleSize \div 2, out |-> 0,
       val |-> [b \in Columns |-> 1]]>>

ExtraRows == [n : {1}, out : {NA, 1}, val : [Columns -> {NA, 1}]]

\* a row group whose second biomarker has its own value
EdgeGroup(n, out, w) ==
    [n |-> n, out |-> out,
     val |-> [b \in Columns |-> IF b = ColumnOrder[2] THEN w ELSE 1]]

\* the second biomarker is measured for MinSampleSize patients, all of them
\* responders
SingleClassCohort ==
    <<EdgeGroup(MinSampleSize, 1, 1), EdgeGroup(MinSampleSize, 0, NA)>>

\* the second biomarker is 0 for everyone
ZeroValueCohort ==
    <<EdgeGroup(MinSampleSize \div 2, 1, 0), EdgeGroup(MinSampleSize \div 2, 0, 0)>>

\* the second biomarker of the responders has a square above the float range
OverflowCohort ==
    <<EdgeGroup(MinSampleSize \div 2, 1, SquareOverflow),
      EdgeGroup(MinSampleSize \div 2, 0, 1)>>

EdgeDatasets == {SingleClassCohort, ZeroValueCohort, OverflowCohort}

BatchDatasets ==
    {Cohort \o d : d \in {e \in SeqsUpTo(ExtraRows, MaxExtra) :
        \A i \in 1..(Len(e) - 1) : RowKey(e[i]) <= RowKey(e[i + 1])}}
    \cup EdgeDatasets

\* the values of a biomarker seen among its complete pairs
ObservedValues(rows, b) ==
    {rows[i].val[b] : i \in {j \in DOMAIN rows : CompletePair(rows[j], b)}}

PValues == {1, 5}          \* p-values, in percent
AUCs    == {70, 90}        \* AUC values, in percent
MinAucs == {60, 80}        \* min_auc arguments, in percent
TopNs   == {1, 2}          \* top_n arguments

\* the fitted probabilities of the observed values, as ranks from 0: the
\* logistic curve rises or falls with the value, and neighbouring values may
\* get the same probability
ScoreMaps(S) ==
    {m \in [S -> 0..(Cardinality(S) - 1)] :
        /\ \/ \A x, y \in S : x <= y => m[x] <= m[y]
           \/ \A x, y \in S : x <= y => m[x] >= m[y]
        /\ \A k \in 0..(Cardinality(S) - 1) :
              (\E x \in S : m[x] = k) => \A j \in 0..k : \E x \in S : m[x] = j}

\* no fitted model: fitting raised, or was not reached
NotFitted == [ok |-> FALSE, p_value |-> NA, AUC |-> NA, proba |-> <<>>]

\* what fitting the model of a biomarker yields on a dataset: an exception,
\* or a p-value, an AUC and the fitted probabilities.  Fitting is reached
\* with MinSampleSize complete pairs and raises on a single outcome class.
FitsWith(rows, b, p_values, aucs) ==
    IF InsufficientSample(CompletePairs(rows, b)) \/ SingleClass(rows, b)
    THEN {NotFitted}
    ELSE {NotFitted}
         \cup [ok : {TRUE}, p_value : p_values, AUC : aucs,
                proba : ScoreMaps(ObservedValues(rows, b))]

FitsOf(rows, b) == FitsWith(rows, b, PValues, AUCs)

\* biomarker names a caller may list: the columns and a name that is no column
ListNames == Columns \cup {"bx"}

InitBatch ==
    /\ data \in BatchDatasets
    /\ fit \in [Columns -> UNION {FitsOf(data, b) : b \in Columns}]
    /\ \A b \in Columns : fit[b] \in FitsOf(data, b)
    /\ first_threshold \in FirstThresholds
    /\ results = <<>>
    /\ te = NoEnrichment
    /\ pc = "idle"
    /\ call = [op |-> "none"]
    /\ ret = <<>>

AnalyzeBiomarkers ==
    /\ pc = "idle"
    /\ \E bl \in SeqsUpTo(ListNames, MaxList), ma \in MinAucs, tn \in TopNs :
          LET out == analyze_biomarkers(data, fit, bl, ma, tn)
          IN /\ call' = [op |-> "analyze_biomarkers", biomarker_list |-> bl,
                         min_auc |-> ma, top_n |-> tn]
             /\ results' = out.results
             /\ ret' = [status |-> out.status, df |-> out.df,
                        warnings |-> out.warnings]
    /\ pc' = "done"
    /\ UNCHANGED <<data, fit, first_threshold, te>>

OptimizeMultipleCutoffs ==
    /\ pc = "idle"
    /\ \E bl \in SeqsUpTo(ListNames, MaxList) :
          /\ call' = [op |-> "optimize_multiple_cutoffs", biomarker_list |-> bl]
          /\ ret' = optimize_multiple_cutoffs(data, fit, bl)
    /\ pc' = "done"
    /\ UNCHANGED <<data, fit, first_threshold, results, te>>

NextBatch == AnalyzeBiomarkers \/ OptimizeMultipleCutoffs

SpecBatch == InitBatch /\ [][NextBatch]_vars

----------------------------------------------------------------------------
(* The cutoff optimizer on its own: one call of optimize_cutoff on the     *)
(* first biomarker column of a dataset that has, for each value of the     *)
(* biomarker and each outcome, no patient, one block or two blocks of      *)
(* patients, and two patients with a missing cell                          *)

\* the (value, outcome) groups of a cutoff dataset, in the order of its rows
CellOrder == <<<<2, 1>>, <<1, 0>>, <<3, 1>>, <<1, 1>>, <<3, 0>>, <<2, 0>>>>

CutoffRow(n, out, v) ==
    [n |-> n, out |-> out,
     val |-> [b \in Columns |-> IF b = ColumnOrder[1] THEN v ELSE NA]]

CutoffDatasetOf(count) ==
    LET cells == SelectSeq(CellOrder, LAMBDA c : count[c] > 0)
    IN <<CutoffRow(1, NA, 3), CutoffRow(1, 1, NA)>>
       \o [i \in DOMAIN cells |-> CutoffRow(count[cells[i]], cells[i][2], cells[i][1])]

\* the middle value has at most one block for each outcome
CutoffDatasets ==
    {CutoffDatasetOf(count) :
        count \in {c \in [{CellOrder[i] : i \in DOMAIN CellOrder} ->
                              {0, BlockSize, 2 * BlockSize}] :
                      \A i \in DOMAIN CellOrder :
                          CellOrder[i][1] = 2 => c[CellOrder[i]] <= BlockSize}}

\* min_sensitivity and min_specificity arguments
Constraints == {None, Some(Rat(1, 2))}

InitCutoff ==
    /\ data \in CutoffDatasets
    /\ fit \in [Columns -> UNION {FitsWith(data, b, {1}, {90}) : b \in Columns}]
    /\ \A b \in Columns : fit[b] \in FitsWith(data, b, {1}, {90})
    /\ first_threshold \in FirstThresholds
    /\ results = <<>>
    /\ te = NoEnrichment
    /\ pc = "idle"
    /\ call = [op |-> "none"]
    /\ ret = <<>>

OptimizeCutoff ==
    /\ pc = "idle"
    /\ \E min_sensitivity \in Constraints, min_specificity \in Constraints :
          /\ call' = [op |-> "optimize_cutoff", biomarker |-> ColumnOrder[1],
                      min_sensitivity |-> min_sensitivity,
                      min_specificity |-> min_specificity]
          /\ ret' = optimize_cutoff(data, fit, ColumnOrder[1],
                                    min_sensitivity, min_specificity)
    /\ pc' = "done"
    /\ UNCHANGED <<data, fit, first_threshold, results, te>>

NextCutoff == OptimizeCutoff

SpecCutoff == InitCutoff /\ [][NextCutoff]_vars

----------------------------------------------------------------------------
(* The TrialEnrichment object: load_data, find_biomarkers,                 *)
(* optimize_cutoffs and suggest_criteria called in any order, any number   *)
(* of times, while the file at data_path may change between two loads.     *)
(* A file has eleven groups of patients, one for each value of the first   *)
(* biomarker; the patients from a boundary value up are responders, so     *)
(* that the best threshold is never the one in front of the curve and      *)
(* first_threshold plays no role.                                          *)

FileGroup(n, out, v, w) ==
    [n |-> n, out |-> out,
     val |-> AsFcn([b \in Columns |-> IF b = ColumnOrder[1] THEN v ELSE w])]

FileOf(boundary, groups, extra) ==
    AsSeq([v \in 1..groups |->
              FileGroup(BlockSize, IF v >= boundary THEN 1 ELSE 0, v, 1 + (v % 2))])
    \o extra

\* two files that pass validation (the second with a raw outcome missing and
\* a biomarker value missing) and one with too few patients
Files ==
    {FileOf(7, 11, <<>>),
     FileOf(4, 11, <<FileGroup(2, NA, 11, 2), FileGroup(1, 1, NA, 1)>>),
     FileOf(2, 4, <<>>)}

\* a fitted model whose probability rises with the biomarker value
Fitted(rows, b, p_value) ==
    [ok |-> TRUE, p_value |-> p_value, AUC |-> 90,
     proba |-> AsFcn([v \in ObservedValues(rows, b) |-> v])]

\* what model fitting yields on a loaded dataset: it is the same each time
\* the same rows are fitted
PipelineFit(rows) ==
    AsFcn([b \in Columns |-> IF b = ColumnOrder[1] THEN Fitted(rows, b, 1)
                              ELSE Fitted(rows, b, 5)])

InitPipeline ==
    /\ data = <<>>
    /\ fit = NoFit
    /\ first_threshold = "inf"
    /\ results = <<>>
    /\ te = NoEnrichment
    /\ pc = "idle"
    /\ call = [op |-> "none"]
    /\ ret = <<>>

\* pc after a call: "repeated" when the call before it was the same
\* operation with the same arguments, else "done"
After(this_call) == IF this_call = call THEN "repeated" ELSE "done"

\* load_data(): a new DataFrame and new components on success
LoadData ==
    \E file \in Files :
        \E out \in {load_data(te, data, file)} :
           /\ call' = [op |-> "load_data"]
           /\ ret' = [status |-> out.status]
           /\ te' = out.self
           /\ data' = out.data
           /\ IF out.status = "ok"
              THEN fit' = PipelineFit(out.data) /\ results' = <<>>
              ELSE UNCHANGED <<fit, results>>
           /\ pc' = After(call')
           /\ UNCHANGED first_threshold

\* find_biomarkers(): the default list or a given one, one of them naming no
\* column; min_auc below the AUC of the fitted models, or above it
FindArguments ==
    {[biomarker_list |-> None, min_auc |-> 60],
     [biomarker_list |-> Some(<<ColumnOrder[2], ColumnOrder[1]>>), min_auc |-> 60],
     [biomarker_list |-> Some(<<"bx">>), min_auc |-> 60],
     [biomarker_list |-> None, min_auc |-> 95]}

FindBiomarkers ==
    \E arguments \in FindArguments, top_n \in {2} :
      \E biomarker_list \in {arguments.biomarker_list}, min_auc \in {arguments.min_auc} :
        \E out \in {find_biomarkers(te, data, fit, biomarker_list, top_n, min_auc)} :
           /\ call' = [op |-> "find_biomarkers", biomarker_list |-> biomarker_list,
                       top_n |-> top_n, min_auc |-> min_auc]
           /\ ret' = [status |-> out.status,
                      value |-> IF out.status = "ok"
                                THEN Some(out.self.biomarker_results[1].rows)
                                ELSE None]
           /\ te' = out.self
           /\ results' = out.results
           /\ data' = out.data
           /\ pc' = After(call')
           /\ UNCHANGED <<fit, first_threshold>>

OptimizeCutoffs ==
    \E biomarker_list \in {None, Some(<<ColumnOrder[1]>>)} :
        \E out \in {optimize_cutoffs(te, data, fit, biomarker_list)} :
           /\ call' = [op |-> "optimize_cutoffs", biomarker_list |-> biomarker_list]
           /\ ret' = [status |-> out.status,
                      value |-> IF out.status = "ok"
                                THEN Some(out.self.cutoff_results[1].rows)
                                ELSE None]
           /\ te' = out.self
           /\ data' = out.data
           /\ pc' = After(call')
           /\ UNCHANGED <<fit, first_threshold, results>>

SuggestCriteria ==
    \E max_criteria \in 1..MaxCriteria, min_eligible_fraction \in MinFractions :
        \E out \in {suggest_criteria(te, data, max_criteria, min_eligible_fraction)} :
           /\ call' = [op |-> "suggest_criteria", max_criteria |-> max_criteria,
                       min_eligible_fraction |-> min_eligible_fraction]
           /\ ret' = [status |-> out.status,
                      value |-> IF out.status = "ok" THEN out.self.enrichment_criteria
                                ELSE None]
           /\ te' = out.self
           /\ data' = out.data
           /\ pc' = After(call')
           /\ UNCHANGED <<fit, first_threshold, results>>

\* criteria_generator.predict_eligibility(new_data, criteria) with the
\* criteria suggest_criteria returned; new_data is the loaded DataFrame
\* itself, or its rows without the second biomarker column
PredictEligibility ==
    /\ te.enrichment_criteria # None
    /\ \E new_columns \in {Columns, {ColumnOrder[1]}} :
          \E out \in {predict_eligibility(data, new_columns,
                                         te.enrichment_criteria[1].cutoffs)} :
             /\ call' = [op |-> "predict_eligibility", new_columns |-> new_columns]
             /\ ret' = [status |-> out.status, value |-> AsSeq(out.mask)]
             /\ data' = DataAfterAnalysis(data)
             /\ pc' = After(call')
             /\ UNCHANGED <<fit, first_threshold, results, te>>

NextPipeline ==
    \/ LoadData
    \/ FindBiomarkers
    \/ OptimizeCutoffs
    \/ SuggestCriteria
    \/ PredictEligibility

SpecPipeline == InitPipeline /\ [][NextPipeline]_vars

----------------------------------------------------------------------------
(* What the claims speak of, stated on the patients themselves *)

\* the patients of the dataset: the k-th row of the i-th row group
Patients == UNION {{<<i, k>> : k \in 1..data[i].n} : i \in DOMAIN data}

Outcome(p)  == data[p[1]].out
Value(p, b) == data[p[1]].val[b]

WithOutcome == {p \in Patients : Outcome(p) # NA}
Responders(S) == {p \in S : Outcome(p) = 1}

GenDone == pc = "done" /\ call.op = "generate_criteria"
GenOk   == GenDone /\ ret.status = "ok"

NamesOf(table) == [i \in DOMAIN table |-> table[i].biomarker]
SetOf(s) == {s[i] : i \in DOMAIN s}
FirstN(s, k) == [i \in 1..Min(k, Len(s)) |-> s[i]]

HasCutoff(b) == \E i \in DOMAIN call.cutoff_results : call.cutoff_results[i].biomarker = b

\* the cutoff of the first row of the cutoff table that names b
CutoffOf(b) ==
    LET i == CHOOSE i \in DOMAIN call.cutoff_results :
                 /\ call.cutoff_results[i].biomarker = b
                 /\ \A j \in 1..(i - 1) : call.cutoff_results[j].biomarker # b
    IN call.cutoff_results[i].cutoff

\* the patients with an outcome who meet the threshold of every biomarker in S
EligibleUnder(S) ==
    {p \in WithOutcome : \A b \in S : Value(p, b) # NA /\ Value(p, b) >= CutoffOf(b)}

\* the rule over S retains less than min_eligible_fraction of the patients
BelowFloor(S) ==
    LET t == Cardinality(WithOutcome)
        e == Cardinality(EligibleUnder(S))
        f == call.min_eligible_fraction
    IN IF t = 0 THEN f.num > 0 ELSE e * f.den < f.num * t

\* x = n / d as fractions, d > 0
IsFraction(x, n, d) == x.den > 0 /\ x.num * d = n * x.den

\* the mean outcome over a set of patients (NaN over no patient)
IsMeanOutcome(x, S) ==
    IF S = {} THEN x = NaN ELSE IsFraction(x, Cardinality(Responders(S)), Cardinality(S))

----------------------------------------------------------------------------
(* C1: when generate_criteria selected more than one biomarker and the     *)
(* combined rule retains less than min_eligible_fraction, the result names *)
(* exactly the first selected biomarker with its cutoff, and its metrics   *)
(* are those of that single rule evaluated alone on the dataset.           *)
Thm_C1 ==
    (GenOk /\ Cardinality(SetOf(ret.selected)) > 1 /\ BelowFloor(SetOf(ret.selected)))
    => LET top == ret.selected[1]
           single == <<[biomarker |-> top, cutoff |-> CutoffOf(top)]>>
       IN /\ ret.biomarkers_used = <<top>>
          /\ ret.cutoffs = single
          /\ ret.criteria = <<_format_criterion(top, CutoffOf(top))>>
          /\ ret.impact = _calculate_combined_impact(data, single)
          /\ ret.impact.n_eligible = Cardinality(EligibleUnder({top}))
          /\ ret.impact.n_total = Cardinality(WithOutcome)
          /\ ret.impact.eligible_fraction =
                 (IF WithOutcome = {} THEN Zero
                  ELSE Frac(Cardinality(EligibleUnder({top})), Cardinality(WithOutcome)))

\* a backoff whose single rule retains patients the combined rule lost
Wit_C1 ==
    /\ GenOk /\ Cardinality(SetOf(ret.selected)) > 1 /\ BelowFloor(SetOf(ret.selected))
    /\ ret.impact.n_eligible > Cardinality(EligibleUnder(SetOf(ret.selected)))

(* C2: generate_criteria raises if and only if the ranked biomarker table  *)
(* is empty, whatever the cutoff table contains.                           *)
Claim_C2 ==
    GenDone => (ret.status # "ok" <=> call.biomarker_results = <<>>)

(* C3 as stated: the selected biomarkers are the first max_criteria of the *)
(* ranked biomarkers that have a cutoff (one without a cutoff takes no     *)
(* slot).                                                                  *)
Claim_C3 ==
    GenOk => ret.selected =
        FirstN(SelectSeq(NamesOf(call.biomarker_results), HasCutoff), call.max_criteria)

(* C3 amended: the selected biomarkers are those of the first max_criteria *)
(* rows of the ranked table that have a cutoff, in ranked order (a ranked  *)
(* biomarker without a cutoff does take one of the max_criteria slots).    *)
Thm_C3 ==
    GenOk => ret.selected =
        SelectSeq(FirstN(NamesOf(call.biomarker_results), call.max_criteria), HasCutoff)

\* a slot is taken by a biomarker without cutoff while a later one has a cutoff
Wit_C3 ==
    /\ GenOk
    /\ \E i, j \in DOMAIN call.biomarker_results :
          /\ i <= call.max_criteria /\ call.max_criteria < j
          /\ ~HasCutoff(call.biomarker_results[i].biomarker)
          /\ HasCutoff(call.biomarker_results[j].biomarker)

(* C4: the backoff is applied at most once and does not raise: the result  *)
(* keeps either every selected biomarker or only the first; every selected *)
(* biomarker is kept when the combined rule meets the floor; a rule still  *)
(* below the floor is returned with its true eligible_fraction.            *)
Thm_C4 ==
    GenDone =>
      /\ (call.biomarker_results # <<>> /\ call.cutoff_results # <<>>) => ret.status = "ok"
      /\ ret.status = "ok" =>
          LET kept == SetOf(NamesOf(ret.cutoffs))
          IN /\ ret.biomarkers_used \in {ret.selected, FirstN(ret.selected, 1)}
             /\ NamesOf(ret.cutoffs) = ret.biomarkers_used
             /\ ~BelowFloor(SetOf(ret.selected)) => ret.biomarkers_used = ret.selected
             /\ Len(ret.selected) <= 1 => ret.biomarkers_used = ret.selected
             /\ BelowFloor(kept) => Len(ret.biomarkers_used) <= 1
             /\ ret.impact.n_eligible = Cardinality(EligibleUnder(kept))
             /\ IF WithOutcome = {} THEN ret.impact.eligible_fraction = Zero
                ELSE IsFraction(ret.impact.eligible_fraction,
                                Cardinality(EligibleUnder(kept)), Cardinality(WithOutcome))

\* after the backoff the single rule is still below the floor, and is returned
Wit_C4 ==
    /\ GenOk /\ Len(ret.selected) > 1 /\ Len(ret.biomarkers_used) = 1
    /\ BelowFloor(SetOf(ret.biomarkers_used))
    /\ WithOutcome # {}

(* C5: n_total counts the patients with an outcome, n_eligible those of    *)
(* them at or above the cutoff of every biomarker of the returned rule;    *)
(* the response rates are means over these two groups only.                *)
Thm_C5 ==
    GenOk =>
      LET kept == SetOf(NamesOf(ret.cutoffs))
      IN /\ ret.impact.n_total = Cardinality(WithOutcome)
         /\ ret.impact.n_eligible = Cardinality(EligibleUnder(kept))
         /\ \A i \in DOMAIN ret.cutoffs : ret.cutoffs[i].cutoff = CutoffOf(ret.cutoffs[i].biomarker)
         /\ IsMeanOutcome(ret.impact.response_rate_unenriched, WithOutcome)
         /\ IF EligibleUnder(kept) = {} THEN ret.impact.response_rate_enriched = Zero
            ELSE IsMeanOutcome(ret.impact.response_rate_enriched, EligibleUnder(kept))

\* a two-biomarker rule on a dataset where a patient without outcome meets it
Wit_C5 ==
    /\ GenOk /\ Len(ret.cutoffs) = 2 /\ ret.impact.n_eligible > 0
    /\ \E p \in Patients :
          /\ Outcome(p) = NA
          /\ \A i \in DOMAIN ret.cutoffs :
                Value(p, ret.cutoffs[i].biomarker) >= ret.cutoffs[i].cutoff

(* C6 as stated: eligible_fraction = n_eligible / n_total; enrichment      *)
(* factor = enriched / unenriched rate when the latter is > 0, else 1.0;   *)
(* number_needed_to_screen = 1 / eligible_fraction when that is > 0, else  *)
(* infinity; response_rate_enriched = 0.0 when n_eligible = 0.             *)
ArithmeticC6(i) ==
    /\ IF RatPos(i.response_rate_unenriched)
       THEN /\ i.enrichment_factor.den > 0
            /\ i.enrichment_factor.num * i.response_rate_unenriched.num
                  * i.response_rate_enriched.den
               = i.response_rate_enriched.num * i.enrichment_factor.den
                  * i.response_rate_unenriched.den
       ELSE i.enrichment_factor = One
    /\ IF RatPos(i.eligible_fraction)
       THEN /\ i.number_needed_to_screen.den > 0
            /\ i.number_needed_to_screen.num * i.eligible_fraction.num
               = i.number_needed_to_screen.den * i.eligible_fraction.den
       ELSE i.number_needed_to_screen = Inf
    /\ i.n_eligible = 0 => i.response_rate_enriched = Zero

Claim_C6 ==
    GenOk =>
      /\ IF ret.impact.n_total = 0 THEN ret.impact.eligible_fraction = NaN
         ELSE IsFraction(ret.impact.eligible_fraction, ret.impact.n_eligible,
                         ret.impact.n_total)
      /\ ArithmeticC6(ret.impact)

(* C6 amended: eligible_fraction = n_eligible / n_total when n_total > 0   *)
(* and 0.0 when n_total = 0; the other three equations as stated.          *)
Thm_C6 ==
    GenOk =>
      /\ IF ret.impact.n_total = 0 THEN ret.impact.eligible_fraction = Zero
         ELSE IsFraction(ret.impact.eligible_fraction, ret.impact.n_eligible,
                         ret.impact.n_total)
      /\ ArithmeticC6(ret.impact)

\* a rule that screens out patients and raises the response rate
Wit_C6 ==
    /\ GenOk /\ ret.impact.n_eligible > 0
    /\ ret.impact.n_eligible < ret.impact.n_total
    /\ RatLt(One, ret.impact.enrichment_factor)
    /\ RatLt(One, ret.impact.number_needed_to_screen)

----------------------------------------------------------------------------
(* The batch operations, stated on the patients and the biomarker list *)

AnDone  == pc = "done" /\ call.op = "analyze_biomarkers"
OptDone == pc = "done" /\ call.op = "optimize_multiple_cutoffs"

\* the patients that have both a value of b and an outcome
PairsOf(b) == {p \in Patients : Value(p, b) # NA /\ Outcome(p) # NA}

\* the listed name is a column with enough complete pairs whose model fits
Survives(b) ==
    /\ b \in Columns
    /\ Cardinality(PairsOf(b)) >= MinSampleSize
    /\ fit[b].ok

\* the analyzed rows that pass the AUC minimum, by their position in results
Qualifying == {i \in DOMAIN results : results[i].AUC >= call.min_auc}

\* a ranks strictly before b: lower p_value, or the same p_value and higher AUC
StrictlyBetter(a, b) ==
    \/ a.p_value < b.p_value
    \/ a.p_value = b.p_value /\ a.AUC > b.AUC

(* C7: analyze_biomarkers returns the first top_n of the analyzed          *)
(* biomarkers with AUC >= min_auc in the order p_value ascending, AUC      *)
(* descending: at most top_n rows, each with AUC >= min_auc, in rank       *)
(* order, and no omitted biomarker with AUC >= min_auc ranks before a      *)
(* returned one.                                                           *)
Thm_C7 ==
    AnDone =>
      /\ Len(ret.df) = Min(call.top_n, Cardinality(Qualifying))
      /\ \E pos \in [DOMAIN ret.df -> Qualifying] :
            /\ \A i, j \in DOMAIN ret.df : pos[i] = pos[j] => i = j
            /\ \A i \in DOMAIN ret.df : ret.df[i] = results[pos[i]]
            /\ \A q \in Qualifying \ {pos[i] : i \in DOMAIN ret.df} :
                  \A i \in DOMAIN ret.df : ~StrictlyBetter(results[q], ret.df[i])
      /\ \A i \in DOMAIN ret.df : ret.df[i].AUC >= call.min_auc
      /\ \A i, j \in DOMAIN ret.df : i < j => ~StrictlyBetter(ret.df[j], ret.df[i])

\* the one row returned won on the AUC tie-break against an earlier-listed
\* biomarker of the same p_value that also passes the minimum
Wit_C7 ==
    /\ AnDone /\ call.top_n = 1 /\ Len(ret.df) = 1 /\ Len(results) = 2
    /\ results[2] = ret.df[1]
    /\ results[1].p_value = results[2].p_value
    /\ results[1].AUC < results[2].AUC
    /\ results[1].AUC >= call.min_auc

(* C8: for the same dataset, biomarker list and top_n, a higher min_auc    *)
(* never returns more biomarkers than a lower one.                         *)
Thm_C8 ==
    AnDone =>
      \A other \in MinAucs :
        LET n_other == Len(analyze_biomarkers(data, fit, call.biomarker_list,
                                              other, call.top_n).df)
        IN /\ call.min_auc <= other => n_other <= Len(ret.df)
           /\ other <= call.min_auc => Len(ret.df) <= n_other

\* raising min_auc strictly shrinks the result
Wit_C8 ==
    /\ AnDone /\ Len(ret.df) = 2
    /\ \E other \in MinAucs :
          /\ call.min_auc < other
          /\ Len(analyze_biomarkers(data, fit, call.biomarker_list,
                                    other, call.top_n).df) = 1

(* C9: a biomarker with fewer than 20 complete (value, outcome) pairs is   *)
(* in no result of analyze_biomarkers, and the other listed biomarkers are *)
(* analyzed as they are without it in the list.                            *)
Thm_C9 ==
    AnDone =>
      LET small(b) == b \in Columns /\ Cardinality(PairsOf(b)) < MinSampleSize
          others == SelectSeq(call.biomarker_list, LAMBDA b : ~small(b))
          alone  == analyze_biomarkers(data, fit, others, call.min_auc, call.top_n)
      IN /\ \A i \in DOMAIN call.biomarker_list :
               small(call.biomarker_list[i]) =>
                 /\ \A k \in DOMAIN ret.df :
                       ret.df[k].biomarker # call.biomarker_list[i]
                 /\ \A k \in DOMAIN results :
                       results[k].biomarker # call.biomarker_list[i]
         /\ ret.status = "ok"
         /\ ret.df = alone.df
         /\ results = alone.results

\* a biomarker with 19 pairs is listed first and the next one is returned
Wit_C9 ==
    /\ AnDone /\ Len(call.biomarker_list) = 2 /\ Len(ret.df) = 1
    /\ call.biomarker_list[1] \in Columns
    /\ Cardinality(PairsOf(call.biomarker_list[1])) = MinSampleSize - 1
    /\ ret.df[1].biomarker = call.biomarker_list[2]

(* C10: neither batch operation lets the failure of one biomarker escape:  *)
(* the call returns, and what it analyzed (the cutoff table, in list       *)
(* order) is exactly the listed biomarkers that did not fail.              *)
Thm_C10 ==
    /\ AnDone =>
         /\ ret.status = "ok"
         /\ NamesOf(results) = SelectSeq(call.biomarker_list, Survives)
    /\ OptDone =>
         /\ ret.status = "ok"
         /\ NamesOf(ret.df) = SelectSeq(call.biomarker_list, Survives)

\* the cutoff table holds the one biomarker listed after a name that is no
\* column, and the other column would have failed to fit
Wit_C10 ==
    /\ OptDone /\ Len(call.biomarker_list) = 2
    /\ call.biomarker_list[1] \notin Columns
    /\ NamesOf(ret.df) = <<call.biomarker_list[2]>>
    /\ \E b \in Columns : ~fit[b].ok

----------------------------------------------------------------------------
(* The cutoff optimizer, stated on the patients and their fitted scores *)

CutDone == pc = "done" /\ call.op = "optimize_cutoff"
CutOk   == CutDone /\ ret.status = "ok"

Unconstrained == call.min_sensitivity = None /\ call.min_specificity = None

\* the patients the optimizer works on, and their fitted probability (rank)
CutPairs == PairsOf(call.biomarker)
ScoreOf(p) == fit[call.biomarker].proba[Value(p, call.biomarker)]

\* the patients a threshold at score t classifies as responders
CalledAt(t) == {p \in CutPairs : ScoreOf(p) >= t}

\* what a threshold may classify as responders: nobody (the threshold in
\* front of the curve) or the patients at or above one of the scores
Classifications == {{}} \cup {CalledAt(ScoreOf(p)) : p \in CutPairs}

NonResponders(S) == {p \in S : Outcome(p) = 0}

\* sensitivity + specificity - 1 of a classification, times the number of
\* responders times the number of non-responders
YoudenTimesPN(S) ==
    Cardinality(Responders(S)) * Cardinality(NonResponders(CutPairs))
    - Cardinality(NonResponders(S)) * Cardinality(Responders(CutPairs))

\* x = y + z - 1 on finite fractions
IsSumMinusOne(x, y, z) ==
    x.num * y.den * z.den = x.den * (y.num * z.den + z.num * y.den - y.den * z.den)

\* x < y and x <= y on finite fractions of either sign
FracLess(x, y)   == x.num * y.den < y.num * x.den
FracAtMost(x, y) == x.num * y.den <= y.num * x.den

\* Youden's index of a point of the ROC curve
YoudenAt(point) == RatSub(point.tpr, point.fpr)

\* the point of the evaluated curve the result reports
Reports(point) ==
    /\ ret.row.sensitivity = point.tpr
    /\ IsSumMinusOne(point.fpr, One, RatSub(One, ret.row.specificity))
    /\ ret.row.youden_index = YoudenAt(point)

(* C11: for a result of optimize_cutoff without constraints, youden_index  *)
(* = sensitivity + specificity - 1; no threshold, evaluated or not, has a  *)
(* higher sensitivity + specificity - 1; and the result reports the first  *)
(* evaluated threshold, highest score first, that attains the maximum.     *)
Thm_C11 ==
    (CutOk /\ Unconstrained) =>
      LET curve == roc_curve(data, fit, call.biomarker)
          P == Cardinality(Responders(CutPairs))
          N == Cardinality(NonResponders(CutPairs))
      IN /\ IsSumMinusOne(ret.row.youden_index, ret.row.sensitivity,
                          ret.row.specificity)
         /\ \A S \in Classifications :
               YoudenTimesPN(S) * ret.row.youden_index.den
                  <= ret.row.youden_index.num * P * N
         /\ \E i \in DOMAIN curve :
               /\ Reports(curve[i])
               /\ \A j \in DOMAIN curve : FracAtMost(YoudenAt(curve[j]), YoudenAt(curve[i]))
               /\ \A j \in 1..(i - 1) : FracLess(YoudenAt(curve[j]), YoudenAt(curve[i]))

\* two evaluated thresholds attain a positive maximum and the result reports
\* the one scanned first
Wit_C11 ==
    /\ CutOk /\ Unconstrained
    /\ RatPos(ret.row.youden_index)
    /\ LET curve == roc_curve(data, fit, call.biomarker)
       IN \E i, j \in DOMAIN curve :
             /\ i < j
             /\ Reports(curve[i])
             /\ YoudenAt(curve[j]) = YoudenAt(curve[i])

\* a sensitivity and a specificity meet the constraints the caller supplied
MeetsCall(sensitivity, specificity) ==
    /\ call.min_sensitivity # None => FracAtMost(call.min_sensitivity[1], sensitivity)
    /\ call.min_specificity # None => FracAtMost(call.min_specificity[1], specificity)

PointMeetsCall(point) == MeetsCall(point.tpr, RatSub(One, point.fpr))

(* C12: with min_sensitivity and/or min_specificity supplied, when some    *)
(* evaluated threshold meets every supplied constraint the selected one    *)
(* meets them all and has the highest Youden index among those that do;    *)
(* when none does, the selected one is the unconstrained Youden maximum.   *)
Thm_C12 ==
    (CutOk /\ ~Unconstrained) =>
      LET curve == roc_curve(data, fit, call.biomarker)
          meeting == {i \in DOMAIN curve : PointMeetsCall(curve[i])}
          among == IF meeting # {} THEN meeting ELSE DOMAIN curve
      IN /\ meeting # {} => MeetsCall(ret.row.sensitivity, ret.row.specificity)
         /\ \E i \in among : Reports(curve[i])
         /\ \A j \in among : FracAtMost(YoudenAt(curve[j]), ret.row.youden_index)

\* no evaluated threshold meets the two constraints supplied, and the result
\* is the unconstrained maximum, which has a positive Youden index
Wit_C12 ==
    /\ CutOk /\ call.min_sensitivity # None /\ call.min_specificity # None
    /\ RatPos(ret.row.youden_index)
    /\ LET curve == roc_curve(data, fit, call.biomarker)
       IN \A i \in DOMAIN curve : ~PointMeetsCall(curve[i])

----------------------------------------------------------------------------
(* Properties of the TrialEnrichment call sequences *)

AnalysisOps ==
    {"find_biomarkers", "optimize_cutoffs", "suggest_criteria", "predict_eligibility"}

Thm_C14 ==
    [][call'.op \in AnalysisOps => data' = data]_vars

\* predict_eligibility returned a mask for a dataset that has a missing
\* biomarker value
Wit_C14 ==
    /\ call.op = "predict_eligibility"
    /\ ret.status = "ok"
    /\ \E i \in DOMAIN data : data[i].val[ColumnOrder[1]] = NA

\* C15: when suggest_criteria returns a rule, the ranked table and the
\* cutoff table it combined were both computed from the dataset that is
\* loaded, which is the one the rule's impact is evaluated on.
Claim_C15 ==
    (call.op = "suggest_criteria" /\ ret.status = "ok")
        => /\ te.biomarker_results[1].snapshot = data
           /\ te.cutoff_results[1].snapshot = data

----------------------------------------------------------------------------
(* _format_criterion on its own *)

FormatNames ==
    {"age", "crp_level", "ki67_score", "Percent_PDL1", "tumor_percentage",
     "STAGE_SCORE"}

FormatCutoffs == (0 - 3)..12 \cup {50, 100}

InitFormat ==
    /\ data = <<>>
    /\ fit = NoFit
    /\ first_threshold = "inf"
    /\ results = <<>>
    /\ te = NoEnrichment
    /\ pc = "idle"
    /\ call \in [op : {"_format_criterion"}, biomarker : FormatNames,
                  cutoff : FormatCutoffs]
    /\ ret = <<>>

FormatCriterion ==
    /\ pc = "idle"
    /\ ret' = _format_criterion(call.biomarker, call.cutoff)
    /\ pc' = "done"
    /\ UNCHANGED <<data, fit, first_threshold, results, te, call>>

NextFormat == FormatCriterion

SpecFormat == InitFormat /\ [][NextFormat]_vars

\* C17: a name that contains "score" or "percent", in any letter case, is
\* rendered as the humanized name, the greater-or-equal sign and the cutoff
\* without decimals followed by "%", and nothing after it.
Claim_C17 ==
    (/\ pc = "done"
     /\ call.op = "_format_criterion"
     /\ \/ Contains(Lower(NameLetters[call.biomarker]), Score)
        \/ Contains(Lower(NameLetters[call.biomarker]), Percent))
    => ret = Title(ReplaceUnderscores(NameLetters[call.biomarker]))
             \o <<" ", ">=", " ">> \o FormatFixed(call.cutoff, 0) \o <<"%">>

----------------------------------------------------------------------------
(* The batch operations on the edge datasets *)

\* the outcomes among the complete pairs of b
ClassesOf(b) == {Outcome(p) : p \in PairsOf(b)}

\* C18: a listed biomarker with at least 20 complete pairs that all have the
\* same outcome still gets a Biomarker Result, and its AUC is 0.5.
Claim_C18 ==
    AnDone =>
      \A i \in DOMAIN call.biomarker_list :
        LET b == call.biomarker_list[i]
        IN (/\ b \in Columns
            /\ Cardinality(PairsOf(b)) >= MinSampleSize
            /\ Cardinality(ClassesOf(b)) = 1)
           => \E k \in DOMAIN results :
                 results[k].biomarker = b /\ results[k].AUC = 50

\* the exponent of a limit, as a multiple of a positive amount above the
\* coefficient: exp rises with it
Offset(e) == IF e.se = "+" THEN e.times ELSE 0

IntervalHolds(row) ==
    /\ Offset(row.CI_lower) <= Offset(row.OR)
    /\ Offset(row.OR) <= Offset(row.CI_upper)

AllZero(b)     == \A p \in PairsOf(b) : Value(p, b) = 0
Overflowing(b) == \E p \in PairsOf(b) : Value(p, b) >= SquareOverflow

Claim_C20 ==
    /\ (AnDone /\ ret.status = "ok") =>
          \A i \in DOMAIN call.biomarker_list :
             (\A k \in DOMAIN results :
                   results[k].biomarker # call.biomarker_list[i])
             => \E w \in DOMAIN ret.warnings :
                   ret.warnings[w] = call.biomarker_list[i]
    /\ (OptDone /\ ret.status = "ok") =>
          \A i \in DOMAIN call.biomarker_list :
             (\A k \in DOMAIN ret.df :
                   ret.df[k].biomarker # call.biomarker_list[i])
             => \E w \in DOMAIN ret.warnings :
                   ret.warnings[w] = call.biomarker_list[i]

----------------------------------------------------------------------------
(* The cutoff of optimize_cutoff and the two groups it forms *)

\* the row groups of the complete pairs, in data order
CutGroups ==
    {i \in DOMAIN data :
        data[i].val[call.biomarker] # NA /\ data[i].out # NA}

GroupScore(i) == fit[call.biomarker].proba[data[i].val[call.biomarker]]

\* the threshold of the point optimize_cutoff selects
SelectedThresholds ==
    {Only({curve[OptimalIdx(curve, call.min_sensitivity, call.min_specificity)] :
           curve \in {roc_curve(data, fit, call.biomarker)}}).threshold}

\* how far the fitted probability of a row group is from a threshold, up to
\* the order of the distances: every probability is infinitely far from
\* inf, and a threshold of max + 1 lies above every probability
Distance(i, threshold) ==
    IF threshold.kind = "inf" THEN 0
    ELSE IF threshold.kind = "max+1"
    THEN Cardinality({GroupScore(j) : j \in CutGroups}) - GroupScore(i)
    ELSE IF GroupScore(i) >= threshold.score THEN GroupScore(i) - threshold.score
    ELSE threshold.score - GroupScore(i)

(* C21: the cutoff of optimize_cutoff is the biomarker value of the first  *)
(* patient, in data order, among the complete-pair patients whose fitted   *)
(* probability is nearest to the selected threshold; it is a value         *)
(* observed among the complete pairs.                                      *)
Thm_C21 ==
    CutOk =>
      \A threshold \in SelectedThresholds :
        \E i \in CutGroups :
           /\ \A j \in CutGroups : Distance(i, threshold) <= Distance(j, threshold)
           /\ \A j \in CutGroups :
                 j < i => Distance(i, threshold) < Distance(j, threshold)
           /\ ret.row.cutoff = data[i].val[call.biomarker]

\* patients with different values are equally near to the selected threshold
Wit_C21 ==
    /\ CutOk
    /\ \A threshold \in SelectedThresholds :
          \E i, j \in CutGroups :
             /\ data[i].val[call.biomarker] # data[j].val[call.biomarker]
             /\ Distance(i, threshold) = Distance(j, threshold)
             /\ \A k \in CutGroups : Distance(i, threshold) <= Distance(k, threshold)
             /\ threshold.kind = "score"

\* the complete-pair patients at or above, and below, the reported cutoff
AboveCutoff == {p \in CutPairs : Value(p, call.biomarker) >= ret.row.cutoff}
BelowCutoff == {p \in CutPairs : Value(p, call.biomarker) < ret.row.cutoff}

\* rate and count are the mean outcome and the size of the group, the rate
\* of an empty group being 0.0
DescribesGroup(rate, count, group) ==
    /\ count = Cardinality(group)
    /\ IF group = {} THEN rate = Zero
       ELSE IsFraction(rate, Cardinality(Responders(group)), Cardinality(group))

(* C22: response_rate_above and n_above are the mean outcome and the count *)
(* of the complete-pair patients whose value is >= the reported cutoff,    *)
(* response_rate_below and n_below those of the patients whose value is    *)
(* below it, with a rate of 0.0 for an empty group.                        *)
Thm_C22 ==
    CutOk =>
      /\ DescribesGroup(ret.row.response_rate_above, ret.row.n_above, AboveCutoff)
      /\ DescribesGroup(ret.row.response_rate_below, ret.row.n_below, BelowCutoff)

\* nobody lies below the cutoff, and responders lie at or above it
Wit_C22 ==
    /\ CutOk
    /\ BelowCutoff = {}
    /\ ret.row.response_rate_below = Zero
    /\ Responders(AboveCutoff) # {}
    /\ NonResponders(AboveCutoff) # {}

\* both groups are inhabited
Wit_C22_Both ==
    /\ CutOk
    /\ BelowCutoff # {}
    /\ Responders(BelowCutoff) # {}
    /\ Responders(AboveCutoff) # {}

(* C29: in every result of optimize_cutoff n_above is at least 1, and      *)
(* n_above + n_below is the number of complete pairs.                      *)
Thm_C29 ==
    CutOk =>
      /\ ret.row.n_above >= 1
      /\ ret.row.n_above + ret.row.n_below = Cardinality(CutPairs)

\* some patients lie below the cutoff, and some patients are no complete pair
Wit_C29 ==
    /\ CutOk
    /\ ret.row.n_below >= 1
    /\ ret.row.n_above < Cardinality(CutPairs)
    /\ Cardinality(CutPairs) < Cardinality(Patients)

\* the fitted probability rises strictly with the value
StrictlyIncreasing ==
    \A p, q \in CutPairs :
       Value(p, call.biomarker) < Value(q, call.biomarker) => ScoreOf(p) < ScoreOf(q)

\* the patients a threshold classifies as responders: nobody reaches the
\* threshold in front of the curve
ClassifiedPositive(threshold) ==
    IF threshold.kind = "score" THEN CalledAt(threshold.score) ELSE {}

(* C28: when the fitted probability is strictly increasing in the value,   *)
(* the complete-pair patients with value >= cutoff are exactly those whose *)
(* fitted probability is >= the selected threshold, n_above is their       *)
(* number, and the reported sensitivity and specificity are those of the   *)
(* rule value >= cutoff.                                                   *)
Claim_C28 ==
    (CutOk /\ StrictlyIncreasing) =>
      \A threshold \in SelectedThresholds :
         /\ AboveCutoff = ClassifiedPositive(threshold)
         /\ ret.row.n_above = Cardinality(ClassifiedPositive(threshold))
         /\ IsFraction(ret.row.sensitivity,
                       Cardinality(Responders(AboveCutoff)),
                       Cardinality(Responders(CutPairs)))
         /\ IsFraction(RatSub(One, ret.row.specificity),
                       Cardinality(NonResponders(AboveCutoff)),
                       Cardinality(NonResponders(CutPairs)))

\* what does hold: the equivalence whenever the selected threshold is one of
\* the fitted probabilities
Thm_C28 ==
    (CutOk /\ StrictlyIncreasing) =>
      \A threshold \in SelectedThresholds :
         threshold.kind = "score" =>
            /\ AboveCutoff = ClassifiedPositive(threshold)
            /\ ret.row.n_above = Cardinality(ClassifiedPositive(threshold))

\* the responders have the higher mean value: the sign a fitted slope follows
SumOfValues(S) ==
    SumSeq([i \in DOMAIN data |->
               Cardinality({p \in S : p[1] = i}) * data[i].val[call.biomarker]])

PositiveAssociation ==
    SumOfValues(Responders(CutPairs)) * Cardinality(NonResponders(CutPairs))
    > SumOfValues(NonResponders(CutPairs)) * Cardinality(Responders(CutPairs))

\* a strictly increasing fit with a specificity floor, where the threshold in
\* front of the curve is selected
Wit_C28_Leading ==
    /\ CutOk
    /\ StrictlyIncreasing
    /\ Cardinality({Value(p, call.biomarker) : p \in CutPairs}) = 3
    /\ call.min_specificity # None
    /\ \A threshold \in SelectedThresholds : threshold.kind # "score"
    /\ PositiveAssociation

----------------------------------------------------------------------------
(* The eligible population of the rule generate_criteria returns *)

\* the backoff replaced the combined rule by its first entry
BackedOff == GenOk /\ Len(ret.biomarkers_used) < Len(ret.selected)

(* C25: when the backoff fires, n_eligible and eligible_fraction of the    *)
(* returned single-biomarker rule are at least those of the combined rule *)
(* it replaces; in every result 0 <= n_eligible <= n_total.                *)
Thm_C25 ==
    GenOk =>
      /\ 0 <= ret.impact.n_eligible
      /\ ret.impact.n_eligible <= ret.impact.n_total
      /\ BackedOff =>
            \A combined \in {_calculate_combined_impact(data,
                                 [i \in DOMAIN ret.selected |->
                                     [biomarker |-> ret.selected[i],
                                      cutoff |-> CutoffOf(ret.selected[i])]])} :
               /\ combined.n_eligible = Cardinality(EligibleUnder(SetOf(ret.selected)))
               /\ ret.impact.n_eligible >= combined.n_eligible
               /\ FracAtMost(combined.eligible_fraction, ret.impact.eligible_fraction)

\* the single rule retains some but not all of the patients, the combined
\* rule fewer
Wit_C25 ==
    /\ BackedOff
    /\ ret.impact.n_eligible > Cardinality(EligibleUnder(SetOf(ret.selected)))
    /\ ret.impact.n_eligible < ret.impact.n_total

\* the patients with an outcome who lack the value of a biomarker of the
\* returned rule
MissingValue ==
    {p \in WithOutcome : \E i \in DOMAIN ret.cutoffs :
                            Value(p, ret.cutoffs[i].biomarker) = NA}

\* the patients with an outcome and every value of the rule, who meet it
MeetsRule ==
    {p \in WithOutcome \ MissingValue :
        \A i \in DOMAIN ret.cutoffs :
           Value(p, ret.cutoffs[i].biomarker) >= ret.cutoffs[i].cutoff}

(* C26: a patient with an outcome who lacks the value of any biomarker of  *)
(* the rule is not eligible (not in n_eligible, not in the enriched rate)  *)
(* but counts in n_total and in response_rate_unenriched.                  *)
Thm_C26 ==
    GenOk =>
      /\ ret.impact.n_eligible = Cardinality(MeetsRule)
      /\ IF MeetsRule = {} THEN ret.impact.response_rate_enriched = Zero
         ELSE IsMeanOutcome(ret.impact.response_rate_enriched, MeetsRule)
      /\ ret.impact.n_total =
            Cardinality(WithOutcome \ MissingValue) + Cardinality(MissingValue)
      /\ IsMeanOutcome(ret.impact.response_rate_unenriched,
                       (WithOutcome \ MissingValue) \cup MissingValue)

\* a responder lacks a value of the rule while a non-responder meets the rule
Wit_C26 ==
    /\ GenOk
    /\ Responders(MissingValue) # {}
    /\ NonResponders(MeetsRule) # {}
    /\ ret.impact.response_rate_enriched = Zero
    /\ ret.impact.response_rate_unenriched = Rat(1, 2)

----------------------------------------------------------------------------
(* The rule generate_criteria returns, part by part *)

(* C24: in every EnrichmentCriteria of generate_criteria, whatever the     *)
(* ranked table and the cutoff table (duplicate biomarker names included), *)
(* criteria, biomarkers_used and the cutoffs map have the same number of   *)
(* entries and name the same biomarkers in the same order.                 *)
Claim_C24 ==
    GenOk =>
      /\ Len(ret.criteria) = Len(ret.biomarkers_used)
      /\ Len(ret.biomarkers_used) = Len(ret.cutoffs)
      /\ NamesOf(ret.cutoffs) = ret.biomarkers_used

\* what does hold: the criteria describe biomarkers_used entry by entry, and
\* the cutoffs map names the same biomarkers, each once
Thm_C24 ==
    GenOk =>
      /\ Len(ret.criteria) = Len(ret.biomarkers_used)
      /\ SetOf(NamesOf(ret.cutoffs)) = SetOf(ret.biomarkers_used)
      /\ \A i, j \in DOMAIN ret.cutoffs :
            ret.cutoffs[i].biomarker = ret.cutoffs[j].biomarker => i = j
      /\ ret.impact = _calculate_combined_impact(data, ret.cutoffs)

\* a biomarker is listed twice in biomarkers_used and once in the cutoffs map
Wit_C24_Twice ==
    /\ GenOk
    /\ Len(ret.biomarkers_used) = 2
    /\ Len(ret.cutoffs) = 1
    /\ ret.impact.n_eligible > 0

PredictDone == pc = "predicted" /\ call.op = "predict_eligibility"

\* the patients with an outcome whom the returned mask marks eligible
MarkedEligible == {p \in WithOutcome : ret.mask[p[1]]}

(* C30: predict_eligibility on the dataset the criteria were generated     *)
(* from, with the EnrichmentCriteria generate_criteria returned, marks     *)
(* eligible exactly n_eligible of the patients with an outcome, for every  *)
(* rule generate_criteria produces.                                        *)
Claim_C30 ==
    PredictDone =>
      /\ ret.status = "ok"
      /\ Cardinality(MarkedEligible) = call.criteria.impact.n_eligible

\* what does hold: the counts agree whenever every biomarker of the rule is
\* a column of the dataset
Thm_C30 ==
    (PredictDone /\ \A i \in DOMAIN call.criteria.cutoffs :
                       call.criteria.cutoffs[i].biomarker \in Columns) =>
      /\ ret.status = "ok"
      /\ Cardinality(MarkedEligible) = call.criteria.impact.n_eligible

\* a rule over columns that marks a patient with an outcome and one without
Wit_C30_Columns ==
    /\ PredictDone
    /\ ret.status = "ok"
    /\ MarkedEligible # {}
    /\ \E p \in Patients \ WithOutcome : ret.mask[p[1]]

\* a rule with a biomarker that is no column was produced, with metrics
Wit_C30_NoColumn ==
    /\ PredictDone
    /\ ret.status = "ValueError"
    /\ call.criteria.impact.n_eligible > 0

----------------------------------------------------------------------------
(* The pipeline after an empty ranking, and patients without a raw outcome *)

\* the object holds a ranked table without rows
EmptyRanking ==
    /\ te.loaded
    /\ te.biomarker_results # None
    /\ te.biomarker_results[1].rows = <<>>

(* C23: when find_biomarkers has returned an empty ranking (every          *)
(* biomarker skipped, or all of them filtered by min_auc), optimize_cutoffs *)
(* with the default list returns an empty cutoff table without raising,    *)
(* and suggest_criteria then raises ValueError and leaves                  *)
(* enrichment_criteria as it was.                                          *)
Claim_C23 ==
    [][EmptyRanking =>
          /\ (call'.op = "optimize_cutoffs" /\ call'.biomarker_list = None)
                => (ret'.status = "ok" /\ ret'.value = Some(<<>>))
          /\ (call'.op = "suggest_criteria" /\ te.cutoff_results # None)
                => (ret'.status = "ValueError"
                    /\ te'.enrichment_criteria = te.enrichment_criteria)]_vars

\* what does hold: the same for a ranking emptied by min_auc, which keeps
\* its columns
Thm_C23 ==
    [][(EmptyRanking /\ te.biomarker_results[1].columns) =>
          /\ (call'.op = "optimize_cutoffs" /\ call'.biomarker_list = None)
                => (ret'.status = "ok" /\ ret'.value = Some(<<>>))
          /\ (call'.op = "suggest_criteria" /\ te.cutoff_results # None)
                => (ret'.status = "ValueError"
                    /\ te'.enrichment_criteria = te.enrichment_criteria)]_vars

\* optimize_cutoffs() has returned an empty table for a ranking emptied by
\* min_auc, and suggest_criteria() has then raised
Wit_C23_Filtered ==
    /\ EmptyRanking /\ te.biomarker_results[1].columns
    /\ te.cutoff_results # None /\ te.cutoff_results[1].rows = <<>>
    /\ call.op = "suggest_criteria" /\ ret.status = "ValueError"

\* optimize_cutoffs() has raised on a ranking in which every biomarker was
\* skipped
Wit_C23_Skipped ==
    /\ EmptyRanking /\ ~te.biomarker_results[1].columns
    /\ call.op = "optimize_cutoffs" /\ call.biomarker_list = None
    /\ ret.status = "KeyError"

\* the files data was loaded from
LoadedFrom == {file \in Files : validate_dataframe(file) /\ LoadedData(file) = data}

RawOutcomePresent(file) == [i \in DOMAIN file |-> file[i].out # NA]

(* C27: through the pipeline, a patient whose raw outcome is missing in    *)
(* the input is not counted in n_total and does not enter the response     *)
(* rate: the criteria suggest_criteria returns count the patients with a   *)
(* raw outcome only.                                                       *)
Claim_C27 ==
    (call.op = "suggest_criteria" /\ ret.status = "ok") =>
      \A file \in LoadedFrom :
         /\ ret.value[1].impact.n_total = CountRows(file, RawOutcomePresent(file))
         /\ ret.value[1].impact.response_rate_unenriched
               = MeanOutcome(file, RawOutcomePresent(file))

\* what does hold: n_total counts every patient of the file, one without a
\* raw outcome as a non-responder
Thm_C27 ==
    (call.op = "suggest_criteria" /\ ret.status = "ok") =>
      \A file \in LoadedFrom :
         /\ ret.value[1].impact.n_total = CountRows(file, [i \in DOMAIN file |-> TRUE])
         /\ ret.value[1].impact.response_rate_unenriched
               = Frac(CountRows(file, [i \in DOMAIN file |-> file[i].out = 1]),
                      CountRows(file, [i \in DOMAIN file |-> TRUE]))

\* criteria were returned for a file with patients whose raw outcome is missing
Wit_C27_Missing ==
    /\ call.op = "suggest_criteria" /\ ret.status = "ok"
    /\ \E file \in LoadedFrom : \E i \in DOMAIN file : file[i].out = NA

====
